---- MODULE Spec2Model ----
(***************************************************************************)
(* In-process I2C simulator of embedded-hal-i2c: the controller half       *)
(* (simulator/src/controller.rs), the target half and its read/write       *)
(* handlers (simulator/src/target.rs) and the default handle_complete      *)
(* methods of the handler traits (embedded-hal-i2c/src/lib.rs).            *)
(***************************************************************************)
EXTENDS Integers, Sequences, FiniteSets, TLC

\* ---------------------------------------------------------------- bounds
MaxLen == 2      \* longest payload, read length and target buffer
MaxOps == 2      \* most operations in one transaction
MaxTxns == 2     \* transactions the controller submits in one run
MaxBytes == 3    \* most bytes the ops of one transaction move together
MaxCalls == 2    \* calls made on the I2cRam driver in one run

\* ------------------------------------------------------------- constants
FILL == 42       \* OnRead::FILL, 0x2a

Addresses == { [mode |-> "Seven", value |-> 32], [mode |-> "Ten", value |-> 32] }
PayloadStarts == {1}       \* first byte of a payload the controller writes
SupplyStart == {3}         \* first byte the target supplies to a read
OvcBytes == {255}          \* overrun characters given to handle_complete
CallerBytes == {9}         \* initial content of the caller's read slices

\* the addresses the target passes to listen_expect_write / listen_expect_read
ExpectedAddresses == { [mode |-> "Seven", value |-> 32],
                       [mode |-> "Seven", value |-> 33] }

\* ------------------------------------------------------------- utilities
None == <<>>
Some(x) == <<x>>
IsSome(o) == o # <<>>
Unwrap(o) == o[1]

Min(a, b) == IF a < b THEN a ELSE b

Repeat(b, n) == [i \in 1..n |-> b]

SeqsUpTo(S, n) == UNION { [1..k -> S] : k \in 0..n }

\* the n consecutive bytes b, b+1, ...: every position holds a different byte
Run(b, n) == [i \in 1..n |-> b + i - 1]

\* buffer[from..] with 0-based from, as a Rust slice
SliceFrom(buf, from) == SubSeq(buf, from + 1, Len(buf))

\* buffer[..to] with 0-based exclusive to
SliceTo(buf, to) == SubSeq(buf, 1, to)

Partial == [tag |-> "Partial"]
Complete(n) == [tag |-> "Complete", n |-> n]

\* ErrorKind::NoAcknowledge(src), src one of "Address", "Data"
NoAcknowledge(src) == [kind |-> "NoAcknowledge", src |-> src]
Other == [kind |-> "Other"]

\* what the responder carries: Result<SimTransaction, ErrorKind>
OkReply(tx) == [ok |-> TRUE, transaction |-> tx]
ErrReply(kind) == [ok |-> FALSE, err |-> kind]

\* what SimController::transaction returns: Result<(), ErrorKind>
OkResult == [ok |-> TRUE]
ErrResult(kind) == [ok |-> FALSE, err |-> kind]

\* ----------------------------------------------------------------- state
VARIABLES
    controller,   \* the caller of SimController::transaction: pc, operations, result
    to_target,    \* mpsc channel SimController.to_target -> SimTarget.from_controller
    responder,    \* oneshot channel of the transaction in flight
    target,       \* SimTarget: current_transaction, need_to_report_deselect
    handler,      \* the live OnRead / OnWrite handed out by listen, or None
    panicked,     \* an expect / assert of the target half failed
    listened,     \* what the last listen call returned
    last_call,    \* the handler method call (or release) made since the last listen
    yields,       \* bookkeeping of listen results: Deselects since the last handler
    offered,      \* per op of the transaction in flight: the bytes offered to a read,
                  \* the bytes a write has put into the user's buffers
    reported,     \* per op, the byte count the target was told and how the op ended
    dropped,      \* the SimTarget has been dropped
    ram,          \* i2c-ram target_service: buf, cur_addr, expect_read
    driver,       \* i2c-ram I2cRam: the bus address it was built with, the call in progress
    wire,         \* wire simulator: the channels to_target and to_controller
    client,       \* wire simulator: the caller of SimController::transaction
    server        \* i2c-io-expander: the SimTarget, the task of run, the TestInterface

vars == <<controller, to_target, responder, target, handler, panicked,
          listened, last_call, yields, offered, reported, dropped, ram, driver,
          wire, client, server>>

\* the transaction simulator and the RAM example on it
simulation == <<controller, to_target, responder, target, handler, panicked,
                listened, last_call, yields, offered, reported, dropped, ram, driver>>

\* the wire simulator and the I/O expander on it
expander == <<wire, client, server>>

\* ------------------------------------------------ SimOp / PartialTransaction
ReadOp(buf) == [kind |-> "Read", buf |-> buf]
WriteOp(buf) == [kind |-> "Write", buf |-> buf]

\* PartialTransaction::new
NewPartialTransaction(transaction, id) ==
    [transaction |-> transaction, current_op |-> 0, responder |-> id]

\* PartialTransaction::current / current_mut: the op at current_op, if any
Current(pt) ==
    IF pt.current_op < Len(pt.transaction.actions)
    THEN Some(pt.transaction.actions[pt.current_op + 1])
    ELSE None

\* what the oneshot receiver gets when its sender was dropped unused
RecvError == [ok |-> FALSE, closed |-> TRUE]

\* oneshot::Sender::send, result ignored (`let _ = ...`)
SendReply(r, id, value) ==
    IF IsSome(r) /\ Unwrap(r).id = id /\ Unwrap(r).value = None
    THEN Some([Unwrap(r) EXCEPT !.value = Some(value)])
    ELSE r

\* ------------------------------------------------------------ SimTarget
\* The target-side operators work on s = [t |-> SimTarget, r |-> responder,
\* panic |-> BOOLEAN] and return the same shape.

SimTargetNew == [current_transaction |-> None, need_to_report_deselect |-> FALSE]

Panic(s) == [s EXCEPT !.panic = TRUE]

\* mutation of Nak: when earlier ops were acknowledged the reply is Ok
Nak_AcksEarlierOps(s, src) ==
    IF ~IsSome(s.t.current_transaction) \/ s.t.need_to_report_deselect
    THEN Panic(s)
    ELSE LET t == Unwrap(s.t.current_transaction)
         IN [s EXCEPT !.t.current_transaction = None,
                      !.t.need_to_report_deselect = TRUE,
                      !.r = SendReply(s.r, t.responder,
                                IF t.current_op > 0
                                THEN OkReply(t.transaction)
                                ELSE ErrReply(NoAcknowledge(src)))]

\* mutation of Nak: need_to_report_deselect is not set
Nak_NoDeselect(s, src) ==
    IF ~IsSome(s.t.current_transaction) \/ s.t.need_to_report_deselect
    THEN Panic(s)
    ELSE LET t == Unwrap(s.t.current_transaction)
         IN [s EXCEPT !.t = [current_transaction |-> None,
                             need_to_report_deselect |-> FALSE],
                      !.r = SendReply(s.r, t.responder, ErrReply(NoAcknowledge(src)))]

\* mutation of Nak: the transaction is answered but stays the current one
Nak_KeepsTransaction(s, src) ==
    IF ~IsSome(s.t.current_transaction) \/ s.t.need_to_report_deselect
    THEN Panic(s)
    ELSE LET t == Unwrap(s.t.current_transaction)
         IN [s EXCEPT !.t.need_to_report_deselect = TRUE,
                      !.r = SendReply(s.r, t.responder, ErrReply(NoAcknowledge(src)))]

\* mutation of Nak: the answer is sent and nothing else changes
Nak_AnswersOnly(s, src) ==
    IF ~IsSome(s.t.current_transaction) \/ s.t.need_to_report_deselect
    THEN Panic(s)
    ELSE [s EXCEPT !.r = SendReply(s.r, Unwrap(s.t.current_transaction).responder,
                                   ErrReply(NoAcknowledge(src)))]

\* SimTarget::nak
Nak(s, src) ==
    IF ~IsSome(s.t.current_transaction) \/ s.t.need_to_report_deselect
    THEN Panic(s)
    ELSE LET t == Unwrap(s.t.current_transaction)
         IN [s EXCEPT !.t = [current_transaction |-> None,
                             need_to_report_deselect |-> TRUE],
                      !.r = SendReply(s.r, t.responder, ErrReply(NoAcknowledge(src)))]

\* mutation of NextOp: completing the last op also marks a Deselect as pending
NextOp_MarkDeselect(s) ==
    IF ~IsSome(s.t.current_transaction)
    THEN Panic(s)
    ELSE LET pt == Unwrap(s.t.current_transaction)
         IN [s EXCEPT !.t.current_transaction =
                          Some([pt EXCEPT !.current_op = @ + 1]),
                      !.t.need_to_report_deselect =
                          (pt.current_op + 1 = Len(pt.transaction.actions))]

\* mutation of NextOp: current_op stays where it is
NextOp_Stays(s) ==
    IF ~IsSome(s.t.current_transaction)
    THEN Panic(s)
    ELSE s

\* mutation of NextOp: the op after the completed one is skipped
NextOp_SkipsOne(s) ==
    IF ~IsSome(s.t.current_transaction)
    THEN Panic(s)
    ELSE [s EXCEPT !.t.current_transaction =
                 Some([Unwrap(@) EXCEPT !.current_op = @ + 2])]

\* SimTarget::next
NextOp(s) ==
    IF ~IsSome(s.t.current_transaction)
    THEN Panic(s)
    ELSE [s EXCEPT !.t.current_transaction =
                 Some([Unwrap(@) EXCEPT !.current_op = @ + 1])]

\* ---------------------------------------------------------------- OnRead
OnReadNew == [kind |-> "OnRead", bytes_filled |-> 0, did_start |-> FALSE]

\* OnRead::current_op_mut followed by the match of OnRead::remaining
OnReadBuf(s) == Unwrap(Current(Unwrap(s.t.current_transaction))).buf

\* OnRead::remaining
OnReadRemaining(s, h) == SliceFrom(OnReadBuf(s), h.bytes_filled)

\* variant of OnReadStore that puts every slice at the front of the op's
\* buffer, whatever has been filled before
OnReadStore_AtFront(s, h, bytes) ==
    LET pt == Unwrap(s.t.current_transaction)
        buf == OnReadBuf(s)
        new == [i \in 1..Len(buf) |->
                  IF i <= Len(bytes) THEN bytes[i] ELSE buf[i]]
    IN [s EXCEPT !.t.current_transaction =
            Some([pt EXCEPT !.transaction.actions[pt.current_op + 1].buf = new])]

\* writes `bytes` into the current read op at bytes_filled..
OnReadStore(s, h, bytes) ==
    LET pt == Unwrap(s.t.current_transaction)
        buf == OnReadBuf(s)
        new == [i \in 1..Len(buf) |->
                  IF i > h.bytes_filled /\ i <= h.bytes_filled + Len(bytes)
                  THEN bytes[i - h.bytes_filled] ELSE buf[i]]
    IN [s EXCEPT !.t.current_transaction =
            Some([pt EXCEPT !.transaction.actions[pt.current_op + 1].buf = new])]

\* mutation of DropOnRead: the did_start test inverted
DropOnRead_Inverted(s, h) ==
    IF h.did_start
    THEN Nak(s, "Address")
    ELSE NextOp(OnReadStore(s, h, Repeat(FILL, Len(OnReadRemaining(s, h)))))

\* mutation of DropOnRead: a started handler advances without filling
DropOnRead_NoFill(s, h) ==
    IF ~h.did_start
    THEN Nak(s, "Address")
    ELSE NextOp(s)

\* impl Drop for OnRead
DropOnRead(s, h) ==
    IF ~h.did_start
    THEN Nak(s, "Address")
    ELSE NextOp(OnReadStore(s, h, Repeat(FILL, Len(OnReadRemaining(s, h)))))

\* mutation of OnReadHandlePart: did_start is not set
OnReadHandlePart_NoStart(s, h, buffer) ==
    IF buffer = <<>>
    THEN [s |-> s, h |-> Some(h), result |-> Partial]
    ELSE LET h1 == h
             len == Min(Len(OnReadRemaining(s, h1)), Len(buffer))
             s1 == OnReadStore(s, h1, SliceTo(buffer, len))
             h2 == [h1 EXCEPT !.bytes_filled = @ + len]
         IN IF OnReadRemaining(s1, h2) = <<>>
            THEN [s |-> DropOnRead(s1, h2), h |-> None, result |-> Complete(len)]
            ELSE [s |-> s1, h |-> Some(h2), result |-> Partial]

\* mutation of OnReadHandlePart: without the early return on an empty buffer
OnReadHandlePart_NoEmptyCheck(s, h, buffer) ==
    LET h1 == [h EXCEPT !.did_start = TRUE]
        len == Min(Len(OnReadRemaining(s, h1)), Len(buffer))
        s1 == OnReadStore(s, h1, SliceTo(buffer, len))
        h2 == [h1 EXCEPT !.bytes_filled = @ + len]
    IN IF OnReadRemaining(s1, h2) = <<>>
       THEN [s |-> DropOnRead(s1, h2), h |-> None, result |-> Complete(len)]
       ELSE [s |-> s1, h |-> Some(h2), result |-> Partial]

\* mutation of OnReadHandlePart: a slice that is used up to its last byte gives
\* Partial, as in OnWrite::handle_part
OnReadHandlePart_PartialWhenExact(s, h, buffer) ==
    IF buffer = <<>>
    THEN [s |-> s, h |-> Some(h), result |-> Partial]
    ELSE LET h1 == [h EXCEPT !.did_start = TRUE]
             len == Min(Len(OnReadRemaining(s, h1)), Len(buffer))
             s1 == OnReadStore(s, h1, SliceTo(buffer, len))
             h2 == [h1 EXCEPT !.bytes_filled = @ + len]
         IN IF OnReadRemaining(s1, h2) = <<>> /\ Len(buffer) # len
            THEN [s |-> DropOnRead(s1, h2), h |-> None, result |-> Complete(len)]
            ELSE [s |-> s1, h |-> Some(h2), result |-> Partial]

\* OnRead::handle_part; h is None in the result when the handler was consumed
OnReadHandlePart(s, h, buffer) ==
    IF buffer = <<>>
    THEN [s |-> s, h |-> Some(h), result |-> Partial]
    ELSE LET h1 == [h EXCEPT !.did_start = TRUE]
             len == Min(Len(OnReadRemaining(s, h1)), Len(buffer))
             s1 == OnReadStore(s, h1, SliceTo(buffer, len))
             h2 == [h1 EXCEPT !.bytes_filled = @ + len]
         IN IF OnReadRemaining(s1, h2) = <<>>
            THEN [s |-> DropOnRead(s1, h2), h |-> None, result |-> Complete(len)]
            ELSE [s |-> s1, h |-> Some(h2), result |-> Partial]

\* --------------------------------------------------------------- OnWrite
OnWriteNew == [kind |-> "OnWrite", bytes_read |-> 0, did_start |-> FALSE]

\* OnWrite::remaining
OnWriteRemaining(s, h) ==
    SliceFrom(Unwrap(Current(Unwrap(s.t.current_transaction))).buf, h.bytes_read)

\* mutation of DropOnWrite: a started handler whose payload is drained
\* advances to the next op
DropOnWrite_AdvanceWhenDrained(s, h) ==
    IF ~h.did_start
    THEN Nak(s, "Address")
    ELSE IF OnWriteRemaining(s, h) = <<>>
    THEN NextOp(s)
    ELSE Nak(s, "Data")

\* mutation of DropOnWrite: a started handler with nothing left of the payload
\* advances to the next op instead of NACKing
DropOnWrite_Advance(s, h) ==
    IF ~h.did_start
    THEN Nak(s, "Address")
    ELSE IF OnWriteRemaining(s, h) # <<>>
         THEN Nak(s, "Data")
         ELSE NextOp(s)

\* mutation of DropOnWrite: the responder is dropped unused instead of
\* being sent a NoAcknowledge
DropOnWrite_ClosesResponder(s, h) ==
    IF ~IsSome(s.t.current_transaction) \/ s.t.need_to_report_deselect
    THEN Panic(s)
    ELSE [s EXCEPT !.t = [current_transaction |-> None,
                          need_to_report_deselect |-> TRUE],
                   !.r = SendReply(s.r, Unwrap(s.t.current_transaction).responder,
                                   RecvError)]

\* impl Drop for OnWrite
DropOnWrite(s, h) ==
    IF ~h.did_start
    THEN Nak(s, "Address")
    ELSE Nak(s, "Data")

\* mutation of OnWriteHandlePart: the test for a full buffer is inverted
OnWriteHandlePart_InvertedFit(s, h, buffer) ==
    IF buffer = <<>>
    THEN [s |-> s, h |-> Some(h), result |-> Partial, out |-> buffer]
    ELSE LET h1 == [h EXCEPT !.did_start = TRUE]
             source == OnWriteRemaining(s, h1)
             len == Min(Len(source), Len(buffer))
             out == SliceTo(source, len) \o SliceFrom(buffer, len)
             h2 == [h1 EXCEPT !.bytes_read = @ + len]
         IN IF OnWriteRemaining(s, h2) = <<>>
            THEN IF Len(buffer) # len
                 THEN [s |-> s, h |-> Some(h2), result |-> Partial, out |-> out]
                 ELSE [s |-> NextOp(s), h |-> None, result |-> Complete(len),
                       out |-> out]
            ELSE [s |-> s, h |-> Some(h2), result |-> Partial, out |-> out]

\* mutation of OnWriteHandlePart: Complete as soon as the payload is used up,
\* also when it filled the buffer exactly
OnWriteHandlePart_CompleteWhenDrained(s, h, buffer) ==
    IF buffer = <<>>
    THEN [s |-> s, h |-> Some(h), result |-> Partial, out |-> buffer]
    ELSE LET h1 == [h EXCEPT !.did_start = TRUE]
             source == OnWriteRemaining(s, h1)
             len == Min(Len(source), Len(buffer))
             out == SliceTo(source, len) \o SliceFrom(buffer, len)
             h2 == [h1 EXCEPT !.bytes_read = @ + len]
         IN IF OnWriteRemaining(s, h2) = <<>>
            THEN [s |-> NextOp(s), h |-> None, result |-> Complete(len), out |-> out]
            ELSE [s |-> s, h |-> Some(h2), result |-> Partial, out |-> out]

\* mutation of OnWriteHandlePart: nothing copied is taken for a full buffer
OnWriteHandlePart_NothingCopied(s, h, buffer) ==
    IF buffer = <<>>
    THEN [s |-> s, h |-> Some(h), result |-> Partial, out |-> buffer]
    ELSE LET h1 == [h EXCEPT !.did_start = TRUE]
             source == OnWriteRemaining(s, h1)
             len == Min(Len(source), Len(buffer))
             out == SliceTo(source, len) \o SliceFrom(buffer, len)
             h2 == [h1 EXCEPT !.bytes_read = @ + len]
         IN IF OnWriteRemaining(s, h2) = <<>>
            THEN IF Len(buffer) = len \/ len = 0
                 THEN [s |-> s, h |-> Some(h2), result |-> Partial, out |-> out]
                 ELSE [s |-> NextOp(s), h |-> None, result |-> Complete(len),
                       out |-> out]
            ELSE [s |-> s, h |-> Some(h2), result |-> Partial, out |-> out]

\* mutation of OnWriteHandlePart: a buffer that was filled completes the op
\* although bytes of the payload remain
OnWriteHandlePart_CompletesEarly(s, h, buffer) ==
    IF buffer = <<>>
    THEN [s |-> s, h |-> Some(h), result |-> Partial, out |-> buffer]
    ELSE LET h1 == [h EXCEPT !.did_start = TRUE]
             source == OnWriteRemaining(s, h1)
             len == Min(Len(source), Len(buffer))
             out == SliceTo(source, len) \o SliceFrom(buffer, len)
             h2 == [h1 EXCEPT !.bytes_read = @ + len]
         IN IF OnWriteRemaining(s, h2) = <<>> /\ Len(buffer) = len
            THEN [s |-> s, h |-> Some(h2), result |-> Partial, out |-> out]
            ELSE [s |-> NextOp(s), h |-> None, result |-> Complete(len),
                  out |-> out]

\* OnWrite::handle_part; `buffer` is the caller's buffer, `out` what it holds after
OnWriteHandlePart(s, h, buffer) ==
    IF buffer = <<>>
    THEN [s |-> s, h |-> Some(h), result |-> Partial, out |-> buffer]
    ELSE LET h1 == [h EXCEPT !.did_start = TRUE]
             source == OnWriteRemaining(s, h1)
             len == Min(Len(source), Len(buffer))
             out == SliceTo(source, len) \o SliceFrom(buffer, len)
             h2 == [h1 EXCEPT !.bytes_read = @ + len]
         IN IF OnWriteRemaining(s, h2) = <<>>
            THEN IF Len(buffer) = len
                 THEN [s |-> s, h |-> Some(h2), result |-> Partial, out |-> out]
                 ELSE [s |-> NextOp(s), h |-> None, result |-> Complete(len),
                       out |-> out]
            ELSE [s |-> s, h |-> Some(h2), result |-> Partial, out |-> out]

\* ------------------------------------------- default handle_complete methods
\* the loop of AsyncReadTransaction::handle_complete
RECURSIVE ReadOverrun(_, _, _, _)
ReadOverrun(s, this, ovc, total) ==
    LET p == OnReadHandlePart(s, this, <<ovc>>)
    IN IF p.result.tag = "Complete"
       THEN [s |-> p.s, n |-> total + p.result.n]
       ELSE ReadOverrun(p.s, Unwrap(p.h), ovc, total + 1)

\* mutation of ReadHandleComplete: a Partial handler is released instead of
\* being fed the overrun character
ReadHandleComplete_NoOverrun(s, h, buffer, ovc) ==
    LET p == OnReadHandlePart(s, h, buffer)
    IN IF p.result.tag = "Complete"
       THEN [s |-> p.s, n |-> p.result.n]
       ELSE [s |-> DropOnRead(p.s, Unwrap(p.h)), n |-> Len(buffer)]

\* AsyncReadTransaction::handle_complete
ReadHandleComplete(s, h, buffer, ovc) ==
    LET p == OnReadHandlePart(s, h, buffer)
    IN IF p.result.tag = "Complete"
       THEN [s |-> p.s, n |-> p.result.n]
       ELSE ReadOverrun(p.s, Unwrap(p.h), ovc, Len(buffer))

\* mutation of WriteHandleComplete: the handle_part that acknowledges the
\* last byte is given an empty buffer
WriteHandleComplete_EmptyProbe(s, h, buffer) ==
    LET p == OnWriteHandlePart(s, h, buffer)
    IN IF p.result.tag = "Complete"
       THEN [s |-> p.s, n |-> p.result.n, out |-> p.out]
       ELSE LET q == OnWriteHandlePart(p.s, Unwrap(p.h), <<>>)
                s2 == IF q.result.tag = "Partial"
                      THEN DropOnWrite(q.s, Unwrap(q.h))
                      ELSE q.s
            IN [s |-> s2, n |-> Len(buffer), out |-> p.out]

\* mutation of WriteHandleComplete: a Partial handler is released without the
\* one-byte handle_part that acknowledges the last byte
WriteHandleComplete_NoAck(s, h, buffer) ==
    LET p == OnWriteHandlePart(s, h, buffer)
    IN IF p.result.tag = "Complete"
       THEN [s |-> p.s, n |-> p.result.n, out |-> p.out]
       ELSE [s |-> DropOnWrite(p.s, Unwrap(p.h)), n |-> Len(buffer), out |-> p.out]

\* mutation of WriteHandleComplete: the byte of the one-byte handle_part is
\* counted too
WriteHandleComplete_CountsExtra(s, h, buffer) ==
    LET p == OnWriteHandlePart(s, h, buffer)
    IN IF p.result.tag = "Complete"
       THEN [s |-> p.s, n |-> p.result.n, out |-> p.out]
       ELSE LET q == OnWriteHandlePart(p.s, Unwrap(p.h), <<0>>)
                s2 == IF q.result.tag = "Partial"
                      THEN DropOnWrite(q.s, Unwrap(q.h))
                      ELSE q.s
            IN [s |-> s2, n |-> Len(buffer) + 1, out |-> p.out]

\* AsyncWriteTransaction::handle_complete
WriteHandleComplete(s, h, buffer) ==
    LET p == OnWriteHandlePart(s, h, buffer)
    IN IF p.result.tag = "Complete"
       THEN [s |-> p.s, n |-> p.result.n, out |-> p.out]
       ELSE LET q == OnWriteHandlePart(p.s, Unwrap(p.h), <<0>>)
                \* `let _ =` drops the result, and with it a Partial's handler
                s2 == IF q.result.tag = "Partial"
                      THEN DropOnWrite(q.s, Unwrap(q.h))
                      ELSE q.s
            IN [s |-> s2, n |-> Len(buffer), out |-> p.out]

\* ------------------------------------------------------- SimTarget::listen
Deselect == [kind |-> "Deselect"]
ReadYield(address) == [kind |-> "Read", address |-> address]
WriteYield(address) == [kind |-> "Write", address |-> address]

\* whether listen can return: recv().await suspends on an empty channel
ListenReady(s, chan) ==
    \/ s.t.need_to_report_deselect
    \/ IsSome(s.t.current_transaction)
    \/ chan # <<>>

\* mutation of SimListen: the address is reported as a 7-bit address
SimListen_SevenBit(s, chan) ==
    IF s.t.need_to_report_deselect
    THEN [s |-> [s EXCEPT !.t.need_to_report_deselect = FALSE], chan |-> chan,
          yield |-> Deselect, h |-> None, txn |-> 0, op |-> 0]
    ELSE LET taken == ~IsSome(s.t.current_transaction)
             current == IF taken THEN Head(chan) ELSE Unwrap(s.t.current_transaction)
             chan1 == IF taken THEN Tail(chan) ELSE chan
             s1 == [s EXCEPT !.t.current_transaction = Some(current)]
             address == [mode |-> "Seven", value |-> current.transaction.address.value]
             op == Current(current)
         IN IF op = None
            THEN LET done == current
                     s2 == [s1 EXCEPT !.t.current_transaction = None]
                 IN IF done.current_op # Len(done.transaction.actions)
                    THEN [s |-> Panic(s2), chan |-> chan1, yield |-> Deselect,
                          h |-> None, txn |-> done.responder, op |-> done.current_op]
                    ELSE [s |-> [s2 EXCEPT !.r = SendReply(s2.r, done.responder,
                                                   OkReply(done.transaction))],
                          chan |-> chan1, yield |-> Deselect, h |-> None,
                          txn |-> done.responder, op |-> done.current_op]
            ELSE IF Unwrap(op).kind = "Read"
            THEN [s |-> s1, chan |-> chan1, yield |-> ReadYield(address),
                  h |-> Some(OnReadNew), txn |-> current.responder,
                  op |-> current.current_op]
            ELSE [s |-> s1, chan |-> chan1, yield |-> WriteYield(address),
                  h |-> Some(OnWriteNew), txn |-> current.responder,
                  op |-> current.current_op]

\* mutation of SimListen: a transaction found finished is answered but kept
\* as the current transaction
SimListen_KeepsFinished(s, chan) ==
    IF s.t.need_to_report_deselect
    THEN [s |-> [s EXCEPT !.t.need_to_report_deselect = FALSE], chan |-> chan,
          yield |-> Deselect, h |-> None, txn |-> 0, op |-> 0]
    ELSE LET taken == ~IsSome(s.t.current_transaction)
             current == IF taken THEN Head(chan) ELSE Unwrap(s.t.current_transaction)
             chan1 == IF taken THEN Tail(chan) ELSE chan
             s1 == [s EXCEPT !.t.current_transaction = Some(current)]
             address == current.transaction.address
             op == Current(current)
         IN IF op = None
            THEN [s |-> [s1 EXCEPT !.r = SendReply(s1.r, current.responder,
                                                  OkReply(current.transaction))],
                  chan |-> chan1, yield |-> Deselect, h |-> None,
                  txn |-> current.responder, op |-> current.current_op]
            ELSE IF Unwrap(op).kind = "Read"
            THEN [s |-> s1, chan |-> chan1, yield |-> ReadYield(address),
                  h |-> Some(OnReadNew), txn |-> current.responder,
                  op |-> current.current_op]
            ELSE [s |-> s1, chan |-> chan1, yield |-> WriteYield(address),
                  h |-> Some(OnWriteNew), txn |-> current.responder,
                  op |-> current.current_op]

\* mutation of SimListen: a pending Deselect is reported only when no
\* transaction is queued; a queued one is taken with the Deselect left pending
SimListen_DeselectWhenIdle(s, chan) ==
    IF s.t.need_to_report_deselect /\ chan = <<>>
    THEN [s |-> [s EXCEPT !.t.need_to_report_deselect = FALSE], chan |-> chan,
          yield |-> Deselect, h |-> None, txn |-> 0, op |-> 0]
    ELSE LET taken == ~IsSome(s.t.current_transaction)
             current == IF taken THEN Head(chan) ELSE Unwrap(s.t.current_transaction)
             chan1 == IF taken THEN Tail(chan) ELSE chan
             s1 == [s EXCEPT !.t.current_transaction = Some(current)]
             address == current.transaction.address
             op == Current(current)
         IN IF op = None
            THEN [s |-> [s1 EXCEPT !.t.current_transaction = None,
                                   !.r = SendReply(s1.r, current.responder,
                                                   OkReply(current.transaction))],
                  chan |-> chan1, yield |-> Deselect, h |-> None,
                  txn |-> current.responder, op |-> current.current_op]
            ELSE [s |-> s1, chan |-> chan1,
                  yield |-> IF Unwrap(op).kind = "Read"
                            THEN ReadYield(address) ELSE WriteYield(address),
                  h |-> Some(IF Unwrap(op).kind = "Read" THEN OnReadNew ELSE OnWriteNew),
                  txn |-> current.responder, op |-> current.current_op]

\* SimTarget::listen, given that it can return. txn and op say which
\* transaction and op the result is about (txn 0: the pending Deselect).
SimListen(s, chan) ==
    IF s.t.need_to_report_deselect
    THEN [s |-> [s EXCEPT !.t.need_to_report_deselect = FALSE], chan |-> chan,
          yield |-> Deselect, h |-> None, txn |-> 0, op |-> 0]
    ELSE LET taken == ~IsSome(s.t.current_transaction)
             current == IF taken THEN Head(chan) ELSE Unwrap(s.t.current_transaction)
             chan1 == IF taken THEN Tail(chan) ELSE chan
             s1 == [s EXCEPT !.t.current_transaction = Some(current)]
             address == current.transaction.address
             op == Current(current)
         IN IF op = None
            THEN LET done == current
                     s2 == [s1 EXCEPT !.t.current_transaction = None]
                 IN IF done.current_op # Len(done.transaction.actions)
                    THEN [s |-> Panic(s2), chan |-> chan1, yield |-> Deselect,
                          h |-> None, txn |-> done.responder, op |-> done.current_op]
                    ELSE [s |-> [s2 EXCEPT !.r = SendReply(s2.r, done.responder,
                                                   OkReply(done.transaction))],
                          chan |-> chan1, yield |-> Deselect, h |-> None,
                          txn |-> done.responder, op |-> done.current_op]
            ELSE IF Unwrap(op).kind = "Read"
            THEN [s |-> s1, chan |-> chan1, yield |-> ReadYield(address),
                  h |-> Some(OnReadNew), txn |-> current.responder,
                  op |-> current.current_op]
            ELSE [s |-> s1, chan |-> chan1, yield |-> WriteYield(address),
                  h |-> Some(OnWriteNew), txn |-> current.responder,
                  op |-> current.current_op]

\* ------------------------------ default listen_expect_write / listen_expect_read
ExpectedCompleteWrite(size) == [kind |-> "ExpectedCompleteWrite", size |-> size]
ExpectedPartialWrite == [kind |-> "ExpectedPartialWrite"]
ExpectedCompleteRead(size) == [kind |-> "ExpectedCompleteRead", size |-> size]
ExpectedPartialRead == [kind |-> "ExpectedPartialRead"]

\* mutation of ListenExpectWrite: the matching write is handled with
\* handle_complete
ListenExpectWrite_Complete(s, chan, expected_address, write_buffer) ==
    LET l == SimListen(s, chan)
    IN IF l.yield.kind = "Write" /\ l.yield.address = expected_address
       THEN LET p == WriteHandleComplete(l.s, Unwrap(l.h), write_buffer)
            IN [s |-> p.s, chan |-> l.chan, yield |-> ExpectedCompleteWrite(p.n),
                h |-> None, out |-> p.out, base |-> l]
       ELSE [s |-> l.s, chan |-> l.chan, yield |-> l.yield, h |-> l.h,
             out |-> write_buffer, base |-> l]

\* bookkeeping: the first n bytes of `out`, as far as it has that many, are
\* what a call has put into the user's buffer from write op i
Receive(i, out, n) ==
    [offered EXCEPT ![i] = @ \o SliceTo(out, Min(n, Len(out)))]

\* AsyncI2cTarget::listen_expect_write; `out` is write_buffer after the call,
\* `base` what the inner listen returned
ListenExpectWrite(s, chan, expected_address, write_buffer) ==
    LET l == SimListen(s, chan)
    IN IF l.yield.kind = "Write" /\ l.yield.address = expected_address
       THEN LET p == OnWriteHandlePart(l.s, Unwrap(l.h), write_buffer)
            IN [s |-> p.s, chan |-> l.chan,
                yield |-> IF p.result.tag = "Complete"
                          THEN ExpectedCompleteWrite(p.result.n)
                          ELSE ExpectedPartialWrite,
                h |-> p.h, out |-> p.out, base |-> l]
       ELSE [s |-> l.s, chan |-> l.chan, yield |-> l.yield, h |-> l.h,
             out |-> write_buffer, base |-> l]

\* mutation of ListenExpectRead: a read to any address is taken as expected
ListenExpectRead_AnyAddress(s, chan, expected_address, read_buffer) ==
    LET l == SimListen(s, chan)
    IN IF l.yield.kind = "Read"
       THEN LET p == OnReadHandlePart(l.s, Unwrap(l.h), read_buffer)
            IN [s |-> p.s, chan |-> l.chan,
                yield |-> IF p.result.tag = "Complete"
                          THEN ExpectedCompleteRead(p.result.n)
                          ELSE ExpectedPartialRead,
                h |-> p.h, out |-> read_buffer, base |-> l]
       ELSE [s |-> l.s, chan |-> l.chan, yield |-> l.yield, h |-> l.h,
             out |-> read_buffer, base |-> l]

\* AsyncI2cTarget::listen_expect_read
ListenExpectRead(s, chan, expected_address, read_buffer) ==
    LET l == SimListen(s, chan)
    IN IF l.yield.kind = "Read" /\ l.yield.address = expected_address
       THEN LET p == OnReadHandlePart(l.s, Unwrap(l.h), read_buffer)
            IN [s |-> p.s, chan |-> l.chan,
                yield |-> IF p.result.tag = "Complete"
                          THEN ExpectedCompleteRead(p.result.n)
                          ELSE ExpectedPartialRead,
                h |-> p.h, out |-> read_buffer, base |-> l]
       ELSE [s |-> l.s, chan |-> l.chan, yield |-> l.yield, h |-> l.h,
             out |-> read_buffer, base |-> l]

\* ------------------------------------------------------------ SimController
ChannelCapacity == 1

\* the map of SimController::send_transaction
ToActions(operations) ==
    [i \in 1..Len(operations) |->
        IF operations[i].kind = "Read"
        THEN ReadOp(Repeat(0, Len(operations[i].buf)))
        ELSE WriteOp(operations[i].buf)]

\* mutation of CopyToOps: every read slice gets the first reply
CopyToOps_First(transaction, operations) ==
    [i \in 1..Len(operations) |->
        IF i <= Len(transaction.actions) /\ operations[i].kind = "Read"
           /\ Len(transaction.actions[1].buf) = Len(operations[i].buf)
        THEN ReadOp(transaction.actions[1].buf)
        ELSE operations[i]]

\* SimTransaction::copy_to_ops; the zip stops at the shorter of the two
CopyToOps(transaction, operations) ==
    [i \in 1..Len(operations) |->
        IF i <= Len(transaction.actions) /\ operations[i].kind = "Read"
        THEN ReadOp(transaction.actions[i].buf)
        ELSE operations[i]]

\* whether copy_to_ops panics: a length or a direction mismatch
CopyToOpsPanics(transaction, operations) ==
    \E i \in 1..Min(Len(operations), Len(transaction.actions)) :
        \/ operations[i].kind # transaction.actions[i].kind
        \/ /\ operations[i].kind = "Read"
           /\ Len(operations[i].buf) # Len(transaction.actions[i].buf)

\* ------------------------------------------------------------------ inputs
Ops ==
    { ReadOp(Repeat(c, n)) : n \in 0..MaxLen, c \in CallerBytes }
    \cup { WriteOp(Run(b, n)) : n \in 0..MaxLen, b \in PayloadStarts }

\* the slices the target passes to a read handler after it has offered
\* `sofar` bytes: it goes on with the byte that follows the last one offered
SupplyBuffers(sofar) == { Run(b + sofar, n) : n \in 0..MaxLen, b \in SupplyStart }

RECURSIVE TotalLen(_)
TotalLen(operations) ==
    IF operations = <<>> THEN 0
    ELSE Len(Head(operations).buf) + TotalLen(Tail(operations))

\* the operation lists the caller passes to SimController::transaction
OpLists == { ops \in SeqsUpTo(Ops, MaxOps) : TotalLen(ops) <= MaxBytes }

\* the calls of SimController::transaction: every operation list to the
\* 7-bit address, the lists of at most one op to the 10-bit address too
Requests ==
    { r \in Addresses \X OpLists : r[1].mode = "Seven" \/ Len(r[2]) <= 1 }

\* the buffers the target passes to a write handler
ZeroBuffers == { Repeat(0, n) : n \in 0..MaxLen }

\* the buffers the target passes to listen_expect_write / listen_expect_read:
\* a short one and a long one
ExpectLens == {1, MaxLen}
ExpectWriteBuffers == { Repeat(0, n) : n \in ExpectLens }
ExpectReadBuffers == { Run(b, n) : n \in ExpectLens, b \in SupplyStart }

\* the arguments of those calls: both buffers with the first expected address,
\* the short one with the others
ExpectArgs(buffers) ==
    { a \in ExpectedAddresses \X buffers :
          a[1] = [mode |-> "Seven", value |-> 32] \/ Len(a[2]) = 1 }

\* mutation of MapErr: a closed responder is taken for an address NACK
MapErr_NoAcknowledge(received) ==
    IF received = RecvError THEN ErrReply(NoAcknowledge("Address")) ELSE received

\* .map_err(|_| ErrorKind::Other) on what the responder's receiver returned
MapErr(received) ==
    IF received = RecvError THEN ErrReply(Other) ELSE received

\* ------------------------------------------------------------------ i2c-ram
BUFLEN == 512
CHUNK_SIZE == 16

\* the number of values of a u16
U16 == 65536

TARGET_ADDR == [mode |-> "Seven", value |-> 32]

\* mutation of ToLeBytes: the high byte goes first
ToLeBytes_BigEndian(n) == <<n \div 256, n % 256>>

\* u16::to_le_bytes and u16::from_le_bytes
ToLeBytes(n) == <<n % 256, n \div 256>>
FromLeBytes(bytes) == bytes[1] + 256 * bytes[2]

\* target_service before its loop: an all-zero buffer, no address, no read expected
TargetServiceNew ==
    [buf |-> Repeat(0, BUFLEN), cur_addr |-> 0, expect_read |-> FALSE]

\* mutation of StoreAt: an address past the end wraps around
StoreAt_Wraps(s, h, addr, m) ==
    LET new_addr == FromLeBytes(addr) % BUFLEN
        w == WriteHandleComplete(s, h, SliceFrom(m.buf, new_addr))
    IN [s |-> w.s,
        m |-> [buf |-> SliceTo(m.buf, new_addr) \o w.out,
               cur_addr |-> new_addr + w.n,
               expect_read |-> TRUE]]

\* mutation of StoreAt: a write that runs past the end of the buffer stores
\* nothing
StoreAt_DiscardsOverrun(s, h, addr, m) ==
    LET new_addr == FromLeBytes(addr)
    IN IF new_addr < BUFLEN
       THEN LET w == WriteHandleComplete(s, h, SliceFrom(m.buf, new_addr))
            IN [s |-> w.s,
                m |-> [buf |-> IF w.s.t.need_to_report_deselect
                               THEN m.buf
                               ELSE SliceTo(m.buf, new_addr) \o w.out,
                       cur_addr |-> new_addr + w.n,
                       expect_read |-> TRUE]]
       ELSE [s |-> DropOnWrite(s, h), m |-> m]

\* target_service with the two address bytes received and the write handler
\* still live: an address inside the buffer takes the rest of the write into
\* buf[cur_addr..], any other is NACKed by dropping the handler
StoreAt(s, h, addr, m) ==
    LET new_addr == FromLeBytes(addr)
    IN IF new_addr < BUFLEN
       THEN LET w == WriteHandleComplete(s, h, SliceFrom(m.buf, new_addr))
            IN [s |-> w.s,
                m |-> [buf |-> SliceTo(m.buf, new_addr) \o w.out,
                       cur_addr |-> new_addr + w.n,
                       expect_read |-> TRUE]]
       ELSE [s |-> DropOnWrite(s, h), m |-> m]

\* mutation of Advance: the address is not cut off at BUFLEN
Advance_Unbounded(m, size) == [m EXCEPT !.cur_addr = @ + size]

\* cur_addr.saturating_add(size).min(BUFLEN)
Advance(m, size) == [m EXCEPT !.cur_addr = Min(@ + size, BUFLEN)]

\* the listen call at the top of the loop of target_service: for a read out
\* of buf[cur_addr..] once an address has been set, else for the address
TargetListen(s, chan, m) ==
    IF m.expect_read /\ m.cur_addr < BUFLEN
    THEN ListenExpectRead(s, chan, TARGET_ADDR, SliceFrom(m.buf, m.cur_addr))
    ELSE ListenExpectWrite(s, chan, TARGET_ADDR, <<0, 0>>)

\* the rest of the loop of target_service: the arm for what listen returned
\* as e
TargetService(e, m) ==
    LET remaining == SliceFrom(m.buf, m.cur_addr)
        kind == e.yield.kind
        same == [s |-> e.s, m |-> m]
    IN CASE kind = "Deselect" ->
               [same EXCEPT !.m.expect_read = FALSE]
         [] kind = "Read" ->
               IF m.cur_addr >= BUFLEN
               THEN [same EXCEPT !.s = DropOnRead(e.s, Unwrap(e.h))]
               ELSE LET r == ReadHandleComplete(e.s, Unwrap(e.h), remaining, 255)
                    IN [s |-> r.s, m |-> Advance(m, r.n)]
         [] kind = "ExpectedCompleteRead" ->
               [same EXCEPT !.m = Advance(m, e.yield.size)]
         [] kind = "ExpectedPartialRead" ->
               LET r == ReadHandleComplete(e.s, Unwrap(e.h), <<>>, 255)
               IN [s |-> r.s, m |-> Advance(m, Len(remaining) + r.n)]
         [] kind = "Write" ->
               LET p == OnWriteHandlePart(e.s, Unwrap(e.h), <<0, 0>>)
               IN IF p.result.tag = "Partial"
                  THEN StoreAt(p.s, Unwrap(p.h), p.out, m)
                  ELSE [s |-> p.s, m |-> m]
         [] kind = "ExpectedCompleteWrite" -> same
         [] kind = "ExpectedPartialWrite" ->
               StoreAt(e.s, Unwrap(e.h), e.out, m)

\* what I2cRam::read and I2cRam::write return
RamOk == [ok |-> TRUE]
OutOfBounds == [ok |-> FALSE, err |-> [kind |-> "OutOfBounds"]]
I2cError(e) == [ok |-> FALSE, err |-> [kind |-> "I2c", e |-> e]]

\* the map_err of both driver calls
DriverError(e) == IF e.kind = "NoAcknowledge" THEN OutOfBounds ELSE I2cError(e)

\* mutation of NumChunks: a last chunk shorter than CHUNK_SIZE is left out
NumChunks_Floor(data) == Len(data) \div CHUNK_SIZE

\* buf.chunks(CHUNK_SIZE): the number of chunks and chunk i, counted from 0
NumChunks(data) == (Len(data) + CHUNK_SIZE - 1) \div CHUNK_SIZE
Chunk(data, i) == SubSeq(data, i * CHUNK_SIZE + 1, Min((i + 1) * CHUNK_SIZE, Len(data)))

\* I2cRam::new(i2c, address), no call made yet
I2cRamNew(address) ==
    [address |-> address,
     pc |-> "idle",        \* idle, busy (awaiting a transaction) or returned
     op |-> "none",        \* the call: read or write
     at |-> 0,             \* its RAM address
     data |-> <<>>,        \* write: the bytes to store
     i |-> 0,              \* write: the chunk in flight
     buf |-> <<>>,         \* read: the caller's buffer
     result |-> None,
     calls |-> 0,          \* calls returned so far
     previous |-> None,    \* the call before this one: op, at, data, result
     written |-> {},       \* the RAM addresses some write call was asked to store to
     sent |-> <<>>,        \* write: the payloads of the transactions sent by this call
     replies |-> <<>>]     \* write: what those transactions returned

\* ------------------------------------- i2c-io-expander on the wire simulator
WireCapacity == 2       \* channel(2), both directions
NumRegs == 32           \* TestInterface::data
ExpanderBufLen == 64    \* buf of run
my_address == 42        \* 0x2a

\* ControllerAction and TargetReaction
ControllerAction(m) == [m |-> m, address |-> 0, is_read |-> FALSE, byte |-> 0]
AddressAction(address, is_read) ==
    [ControllerAction("Address") EXCEPT !.address = address, !.is_read = is_read]
WriteByte(byte) == [ControllerAction("WriteByte") EXCEPT !.byte = byte]
TargetReaction(m) == [m |-> m, byte |-> 0]
ReadByte(byte) == [TargetReaction("ReadByte") EXCEPT !.byte = byte]

\* u32::to_le_bytes and u32::from_le_bytes
ToLeBytes32(word) ==
    <<word % 256, (word \div 256) % 256, (word \div 65536) % 256, word \div 16777216>>
FromLeBytes32(bytes) ==
    bytes[1] + 256 * bytes[2] + 65536 * bytes[3] + 16777216 * bytes[4]

\* simulator(address) and server: the SimTarget, the buffer of run and the
\* TestInterface, with run parked at the recv of its first listen
ServerNew(address) ==
    [address |-> address,
     state |-> "WaitForStart",       \* TargetState
     pc |-> "listen",                \* the recv the task is parked at
     expect |-> "write",             \* listen_expect_write or listen_expect_read
     ack_sent |-> FALSE,             \* of the handler in use
     filled |-> 0,                   \* bytes handle_part has moved
     rest |-> FALSE,                 \* OnRead::handle_rest is sending FILL
     buf |-> Repeat(0, ExpanderBufLen),
     data |-> <<>>,                  \* the slice read_reg returned
     regs |-> [reg \in 0..(NumRegs - 1) |-> 0]]

\* what one step of the task gives: its new state and the reactions it sent
React(sv, reaction) == [server |-> sv, react |-> <<reaction>>]
Quiet(sv) == [server |-> sv, react |-> <<>>]
ServerPanic(sv) == [sv EXCEPT !.pc = "panicked"]

\* run at the top of its loop: listen_expect_write, parked in listen
TopOfLoop(sv) ==
    [sv EXCEPT !.pc = "listen", !.expect = "write", !.ack_sent = FALSE,
               !.filled = 0, !.rest = FALSE, !.data = <<>>]

\* OnRead::handle_rest, reached through done
HandleRest(sv) ==
    IF ~sv.ack_sent
    THEN React(TopOfLoop([sv EXCEPT !.state = "WaitForStop"]),
               TargetReaction("NackAddress"))
    ELSE Quiet([sv EXCEPT !.pc = "send_byte_req", !.rest = TRUE])

\* OnWrite::done_inner, reached through done
DoneInner(sv) ==
    IF ~sv.ack_sent
    THEN React(TopOfLoop([sv EXCEPT !.state = "WaitForStop"]),
               TargetReaction("NackAddress"))
    ELSE Quiet([sv EXCEPT !.pc = "done_inner"])

\* done() on what listen_expect_read returned: nothing is left to do after
\* HandledCompletely, a handler that is still live is finished with its done
ExpectHandledDone(sv, outcome, is_read) ==
    IF outcome = "HandledCompletely" THEN Quiet(TopOfLoop(sv))
    ELSE IF is_read THEN HandleRest(sv)
    ELSE DoneInner(sv)

\* listen_expect_read once listen has returned a transaction: a read to the
\* expected address is served from read_buffer by handle_part, which parks
\* in send_byte after acknowledging the address; anything else is NotHandled
WireExpectRead(sv, action) ==
    IF action.is_read /\ action.address = my_address
    THEN React([sv EXCEPT !.pc = "send_byte_req", !.ack_sent = TRUE,
                          !.filled = 0, !.rest = FALSE],
               TargetReaction("AckAddress"))
    ELSE ExpectHandledDone(sv, "NotHandled", action.is_read)

\* listen_expect_write once listen has returned a transaction: a write to
\* the expected address goes to handle_part, which parks in recv_byte after
\* acknowledging the address; anything else is NotHandled, which run drops
\* with its handler, and Drop for OnRead / OnWrite panics
WireExpectWrite(sv, action) ==
    IF ~action.is_read /\ action.address = my_address
    THEN React([sv EXCEPT !.pc = "recv_byte", !.ack_sent = TRUE, !.filled = 0],
               TargetReaction("AckAddress"))
    ELSE Quiet(ServerPanic(sv))

\* SimTarget::listen on one ControllerAction
WireListen(sv, action) ==
    CASE sv.state = "WaitForStart" /\ action.m = "Start" ->
            Quiet([sv EXCEPT !.state = "WaitForAddress"])
      [] sv.state = "WaitForAddress" /\ action.m = "Address"
              /\ action.address # sv.address ->
            React([sv EXCEPT !.state = "WaitForStop"], TargetReaction("NackAddress"))
      [] sv.state = "WaitForAddress" /\ action.m = "Address"
              /\ action.address = sv.address ->
            IF sv.expect = "write"
            THEN WireExpectWrite([sv EXCEPT !.state = "InTransaction"], action)
            ELSE WireExpectRead([sv EXCEPT !.state = "InTransaction"], action)
      [] sv.state \in {"InTransaction", "WaitForStop"} /\ action.m = "Restart" ->
            Quiet([sv EXCEPT !.state = "WaitForAddress"])
      [] sv.state \in {"InTransaction", "WaitForStop"} /\ action.m = "Stop" ->
            Quiet([sv EXCEPT !.state = "WaitForStart"])
      [] OTHER -> Quiet(ServerPanic(sv))

\* mutation of WriteReg: more than four data bytes are cut to four
WriteReg_Truncating(sv, addr, data) ==
    IF Len(data) < 4 THEN sv
    ELSE IF addr >= NumRegs THEN ServerPanic(sv)
    ELSE [sv EXCEPT !.regs[addr] = FromLeBytes32(SliceTo(data, 4))]

\* TestInterface::write_reg; run ignores its Err
WriteReg(sv, addr, data) ==
    IF Len(data) # 4 THEN sv
    ELSE IF addr >= NumRegs THEN ServerPanic(sv)
    ELSE [sv EXCEPT !.regs[addr] = FromLeBytes32(data)]

\* TestInterface::read_reg into the 64 byte buf of run
ReadReg(sv, addr) ==
    IF addr >= NumRegs THEN ServerPanic(sv)
    ELSE [sv EXCEPT !.buf = ToLeBytes32(sv.regs[addr]) \o SliceFrom(sv.buf, 4),
                    !.data = ToLeBytes32(sv.regs[addr])]

\* run after listen_expect_write returned HandledCompletely(size): the match
\* on buf[..size]
Dispatch(sv, size) ==
    IF size = 0 THEN TopOfLoop(sv)
    ELSE IF size = 1
    THEN LET r == ReadReg(sv, sv.buf[1])
         IN IF r.pc = "panicked" THEN r
            ELSE [r EXCEPT !.pc = "listen", !.expect = "read", !.ack_sent = FALSE,
                           !.filled = 0, !.rest = FALSE]
    ELSE LET w == WriteReg(sv, sv.buf[1], SubSeq(sv.buf, 2, size))
         IN IF w.pc = "panicked" THEN w ELSE TopOfLoop(w)

\* OnWrite::recv_byte inside handle_part of listen_expect_write, on one
\* ControllerAction; a full buffer gives HandledContinuedWrite, which run drops
RecvByte(sv, action) ==
    CASE action.m = "WriteByte" ->
            LET sv1 == [sv EXCEPT !.buf[sv.filled + 1] = action.byte,
                                  !.filled = @ + 1]
            IN React(IF sv1.filled = ExpanderBufLen THEN ServerPanic(sv1) ELSE sv1,
                     TargetReaction("AckWrite"))
      [] action.m = "Restart" ->
            Quiet(Dispatch([sv EXCEPT !.state = "WaitForAddress"], sv.filled))
      [] action.m = "Stop" ->
            Quiet(Dispatch([sv EXCEPT !.state = "WaitForStart"], sv.filled))
      [] OTHER -> Quiet(ServerPanic(sv))

\* OnRead::send_byte at its first recv: the controller asks for the byte or
\* ends the read, which ends handle_part (Finished) or handle_rest
SendByteReq(sv, action) ==
    CASE action.m = "RequestByte" ->
            React([sv EXCEPT !.pc = "send_byte_ack"],
                  ReadByte(IF sv.rest THEN FILL ELSE sv.data[sv.filled + 1]))
      [] action.m = "Restart" ->
            IF sv.rest THEN Quiet(TopOfLoop([sv EXCEPT !.state = "WaitForAddress"]))
            ELSE ExpectHandledDone([sv EXCEPT !.state = "WaitForAddress"],
                                   "HandledCompletely", TRUE)
      [] action.m = "Stop" ->
            IF sv.rest THEN Quiet(TopOfLoop([sv EXCEPT !.state = "WaitForStart"]))
            ELSE ExpectHandledDone([sv EXCEPT !.state = "WaitForStart"],
                                   "HandledCompletely", TRUE)
      [] OTHER -> Quiet(ServerPanic(sv))

\* OnRead::send_byte at its second recv: after the last byte of the slice
\* handle_part returns PartialComplete and done goes on with handle_rest
SendByteAck(sv, action) ==
    CASE action.m = "AckRead" ->
            IF sv.rest THEN Quiet([sv EXCEPT !.pc = "send_byte_req"])
            ELSE IF sv.filled + 1 < Len(sv.data)
            THEN Quiet([sv EXCEPT !.pc = "send_byte_req", !.filled = @ + 1])
            ELSE ExpectHandledDone([sv EXCEPT !.filled = @ + 1],
                                   "HandledContinuedRead", TRUE)
      [] action.m = "Restart" ->
            IF sv.rest THEN Quiet(TopOfLoop([sv EXCEPT !.state = "WaitForAddress"]))
            ELSE ExpectHandledDone([sv EXCEPT !.state = "WaitForAddress"],
                                   "HandledCompletely", TRUE)
      [] action.m = "Stop" ->
            IF sv.rest THEN Quiet(TopOfLoop([sv EXCEPT !.state = "WaitForStart"]))
            ELSE ExpectHandledDone([sv EXCEPT !.state = "WaitForStart"],
                                   "HandledCompletely", TRUE)
      [] OTHER -> Quiet(ServerPanic(sv))

\* OnWrite::done_inner at its recv
DoneInnerRecv(sv, action) ==
    CASE action.m = "WriteByte" ->
            React(TopOfLoop([sv EXCEPT !.state = "WaitForStop"]),
                  TargetReaction("NackWrite"))
      [] action.m = "Restart" -> Quiet(TopOfLoop([sv EXCEPT !.state = "WaitForAddress"]))
      [] action.m = "Stop" -> Quiet(TopOfLoop([sv EXCEPT !.state = "WaitForStart"]))
      [] OTHER -> Quiet(ServerPanic(sv))

\* the task from the recv it is parked at to the next one
Serve(sv, action) ==
    CASE sv.pc = "listen" -> WireListen(sv, action)
      [] sv.pc = "recv_byte" -> RecvByte(sv, action)
      [] sv.pc = "send_byte_req" -> SendByteReq(sv, action)
      [] sv.pc = "send_byte_ack" -> SendByteAck(sv, action)
      [] sv.pc = "done_inner" -> DoneInnerRecv(sv, action)

\* simulator(address): the controller half with no call made, and what the
\* caller knows: the calls made and the registers as its successful
\* well-formed writes leave them
ClientNew ==
    [pc |-> "idle",          \* the send or recv SimController::transaction is at
     address |-> 0,
     ops |-> <<>>,           \* the operations of the call
     op |-> 0,               \* the operation in progress
     idx |-> 0,              \* bytes of it moved
     err |-> None,           \* the NoAcknowledge to return after the Stop
     result |-> None,
     calls |-> 0,
     previous |-> <<>>,      \* the operations of the call before
     shadow |-> [reg \in 0..(NumRegs - 1) |-> 0]]

\* SimController::transaction after an operation's address or byte went
\* through: the next byte, the next operation or the final Stop
Continue(c) ==
    IF c.idx < Len(c.ops[c.op].buf) THEN [c EXCEPT !.pc = "byte"]
    ELSE IF c.op < Len(c.ops) THEN [c EXCEPT !.op = @ + 1, !.idx = 0, !.pc = "start"]
    ELSE [c EXCEPT !.pc = "stop"]

\* the ControllerAction the controller sends at c.pc
Sent(c) ==
    CASE c.pc = "start" -> ControllerAction(IF c.op = 1 THEN "Start" ELSE "Restart")
      [] c.pc = "address" -> AddressAction(c.address, c.ops[c.op].kind = "Read")
      [] c.pc = "byte" -> IF c.ops[c.op].kind = "Read"
                          THEN ControllerAction("RequestByte")
                          ELSE WriteByte(c.ops[c.op].buf[c.idx + 1])
      [] c.pc = "ack" -> ControllerAction("AckRead")
      [] c.pc \in {"stop", "nack_stop"} -> ControllerAction("Stop")

\* the controller once that send has gone through
AfterSend(c) ==
    CASE c.pc = "start" -> [c EXCEPT !.pc = "address"]
      [] c.pc = "address" -> [c EXCEPT !.pc = "wait_address"]
      [] c.pc = "byte" -> [c EXCEPT !.pc = "wait_byte"]
      [] c.pc = "ack" -> Continue([c EXCEPT !.idx = @ + 1])
      [] c.pc = "stop" -> [c EXCEPT !.pc = "returned", !.result = Some(OkResult)]
      [] c.pc = "nack_stop" ->
            [c EXCEPT !.pc = "returned", !.result = Some(ErrResult(Unwrap(c.err)))]

\* the controller on the TargetReaction it was waiting for: send_address,
\* handle_read and handle_write after their transact
AfterRecv(c, reaction) ==
    CASE c.pc = "wait_address" /\ reaction.m = "AckAddress" -> Continue(c)
      [] c.pc = "wait_address" /\ reaction.m = "NackAddress" ->
            [c EXCEPT !.pc = "nack_stop", !.err = Some(NoAcknowledge("Address"))]
      [] c.pc = "wait_byte" /\ c.ops[c.op].kind = "Read" /\ reaction.m = "ReadByte" ->
            [c EXCEPT !.pc = "ack", !.ops[c.op].buf[c.idx + 1] = reaction.byte]
      [] c.pc = "wait_byte" /\ c.ops[c.op].kind = "Write" /\ reaction.m = "AckWrite" ->
            Continue([c EXCEPT !.idx = @ + 1])
      [] c.pc = "wait_byte" /\ c.ops[c.op].kind = "Write" /\ reaction.m = "NackWrite" ->
            [c EXCEPT !.pc = "nack_stop", !.err = Some(NoAcknowledge("Data"))]
      [] OTHER -> [c EXCEPT !.pc = "panicked"]

\* a write of a register byte and exactly four data bytes to a register
\* that exists
WellFormedWrite(ops) ==
    /\ Len(ops) = 1 /\ ops[1].kind = "Write"
    /\ Len(ops[1].buf) = 5
    /\ ops[1].buf[1] < NumRegs

\* ------------------------------------------------------------------- Init
NoCall == [method |-> "none"]

SimulatorInit ==
    /\ controller = [pc |-> "idle", txn |-> 0, address |-> None,
                     operations |-> <<>>, result |-> None]
    /\ to_target = <<>>
    /\ responder = None
    /\ target = SimTargetNew
    /\ handler = None
    /\ panicked = FALSE
    /\ listened = None
    /\ last_call = NoCall
    /\ yields = [txn |-> 0,        \* transaction of the last Read / Write yield
                 op |-> 0,         \* its op index
                 deselects |-> 0,  \* Deselects returned since that yield
                 prev |-> 0,       \* transaction of the last yield before txn's
                 nack |-> -1]      \* listens since the last NACK (-1: no NACK yet)
    /\ offered = <<>>
    /\ reported = <<>>
    /\ dropped = FALSE

\* the simulator on its own: no target_service runs on it, no I2cRam drives it
Init ==
    /\ SimulatorInit
    /\ ram = None
    /\ driver = None
    /\ wire = None
    /\ client = None
    /\ server = None

\* the target-side state the operators above work on
S == [t |-> target, r |-> responder, panic |-> panicked]

Apply(s) ==
    /\ target' = s.t
    /\ responder' = s.r
    /\ panicked' = s.panic

\* --------------------------------------------------------- controller steps
\* send_transaction for the next call of SimController::transaction, and
\* the bookkeeping of the new transaction
SendTransaction(address, operations) ==
    /\ LET id == controller.txn + 1
           transaction == [address |-> address, actions |-> ToActions(operations)]
       IN IF dropped \/ Len(to_target) >= ChannelCapacity
          THEN \* try_send(..).unwrap() on a closed or full channel
               /\ controller' = [controller EXCEPT !.pc = "panicked"]
               /\ UNCHANGED <<to_target, responder>>
          ELSE /\ to_target' = Append(to_target, NewPartialTransaction(transaction, id))
               /\ responder' = Some([id |-> id, value |-> None])
               /\ controller' = [pc |-> "waiting", txn |-> id,
                                 address |-> Some(address),
                                 operations |-> operations, result |-> None]
    /\ offered' = [i \in 1..Len(operations) |-> <<>>]
    /\ reported' = [i \in 1..Len(operations) |-> [bytes |-> 0, ended |-> "no"]]

\* SimController::transaction up to the await: send_transaction
Transaction(address, operations) ==
    /\ ~panicked
    /\ controller.pc = "idle"
    /\ controller.txn < MaxTxns
    /\ SendTransaction(address, operations)
    /\ UNCHANGED <<target, handler, panicked, listened, last_call, yields, dropped,
                   ram, driver>>
    /\ UNCHANGED expander

\* SimController::transaction from the await on: the reply has arrived
Await ==
    /\ ~panicked
    /\ controller.pc = "waiting"
    /\ IsSome(responder)
    /\ Unwrap(responder).id = controller.txn
    /\ IsSome(Unwrap(responder).value)
    /\ LET v == MapErr(Unwrap(Unwrap(responder).value))
       IN IF v.ok
          THEN IF CopyToOpsPanics(v.transaction, controller.operations)
               THEN controller' = [controller EXCEPT !.pc = "panicked"]
               ELSE controller' = [controller EXCEPT
                        !.pc = "returned",
                        !.operations = CopyToOps(v.transaction, @),
                        !.result = Some(OkResult)]
          ELSE controller' = [controller EXCEPT
                   !.pc = "returned", !.result = Some(ErrResult(v.err))]
    /\ responder' = None
    /\ UNCHANGED <<to_target, target, handler, panicked, listened, last_call,
                   yields, offered, reported, dropped, ram, driver>>
    /\ UNCHANGED expander

\* the caller is done with the result and its buffers; the bookkeeping of
\* calls and offered bytes is per transaction
Retire ==
    /\ ~panicked
    /\ controller.pc = "returned"
    /\ controller' = [controller EXCEPT !.pc = "idle", !.address = None,
                                        !.operations = <<>>, !.result = None]
    /\ last_call' = NoCall
    /\ offered' = <<>>
    /\ reported' = <<>>
    /\ UNCHANGED <<to_target, responder, target, handler, panicked, listened, yields,
                   dropped, ram, driver>>
    /\ UNCHANGED expander

\* ------------------------------------------------------------- target steps
\* the transaction a handler would act on
CurrentTxn == Unwrap(target.current_transaction)

\* bookkeeping: `bytes` offered to the current read op, which takes no more
\* than its length
Offer(bytes) ==
    LET i == CurrentTxn.current_op + 1
        q == offered[i] \o bytes
    IN [offered EXCEPT ![i] = SliceTo(q, Min(Len(q), Len(controller.operations[i].buf)))]

\* bookkeeping: the target was told that n more bytes of op i (1-based) were
\* moved; ended says whether and how the op's handler is gone
Report(i, n, ended) ==
    [reported EXCEPT ![i] = [bytes |-> @.bytes + n, ended |-> ended]]

\* bookkeeping: handle_part on the handler of op i returned result for buffer
ReportPart(i, buffer, result) ==
    IF result.tag = "Complete"
    THEN Report(i, result.n, "complete")
    ELSE Report(i, Len(buffer), "no")

\* bookkeeping: a release or method call NACKed the transaction in flight
Nacked(s) ==
    /\ IsSome(responder) /\ Unwrap(responder).value = None
    /\ IsSome(s.r) /\ IsSome(Unwrap(s.r).value)
    /\ ~Unwrap(Unwrap(s.r).value).ok

NoteNack(s) == IF Nacked(s) THEN [yields EXCEPT !.nack = 0] ELSE yields

\* bookkeeping: listen returned l
NoteYield(l) ==
    LET nack == IF yields.nack >= 0 /\ yields.nack < 2
                THEN yields.nack + 1
                ELSE yields.nack
    IN IF l.yield.kind = "Deselect"
       THEN [yields EXCEPT !.deselects = @ + 1, !.nack = nack]
       ELSE [txn |-> l.txn, op |-> l.op, deselects |-> 0,
             prev |-> IF l.txn = yields.txn THEN yields.prev ELSE yields.txn,
             nack |-> nack]

\* mutation of Listen: listen can be called while a handler is live
Listen_Reentrant ==
    /\ ~panicked /\ ~dropped
    /\ ListenReady(S, to_target)
    /\ LET l == SimListen(S, to_target)
       IN /\ Apply(l.s)
          /\ to_target' = l.chan
          /\ handler' = l.h
          /\ listened' = Some(l.yield)
          /\ yields' = NoteYield(l)
          /\ last_call' = NoCall
    /\ UNCHANGED <<controller, offered, reported, dropped, ram, driver>>
    /\ UNCHANGED expander

\* the user of the target calls listen
Listen ==
    /\ ~panicked /\ ~dropped
    /\ handler = None
    /\ ListenReady(S, to_target)
    /\ LET l == SimListen(S, to_target)
       IN /\ Apply(l.s)
          /\ to_target' = l.chan
          /\ handler' = l.h
          /\ listened' = Some(l.yield)
          /\ yields' = NoteYield(l)
          /\ last_call' = NoCall
    /\ UNCHANGED <<controller, offered, reported, dropped, ram, driver>>
    /\ UNCHANGED expander

ExpectCall(method, e) == [method |-> method, result |-> e.yield]

\* the user of the target calls listen_expect_write
ListenExpectWriteCall(expected_address, write_buffer) ==
    /\ ~panicked /\ ~dropped
    /\ handler = None
    /\ ListenReady(S, to_target)
    /\ LET e == ListenExpectWrite(S, to_target, expected_address, write_buffer)
       IN /\ Apply(e.s)
          /\ to_target' = e.chan
          /\ handler' = e.h
          /\ listened' = Some(e.base.yield)
          /\ yields' = NoteYield(e.base)
          /\ last_call' = ExpectCall("listen_expect_write", e)
          /\ reported' =
                IF e.yield.kind = "ExpectedCompleteWrite"
                THEN Report(e.base.op + 1, e.yield.size, "complete")
                ELSE IF e.yield.kind = "ExpectedPartialWrite"
                THEN Report(e.base.op + 1, Len(write_buffer), "no")
                ELSE reported
          /\ offered' =
                IF e.yield.kind = "ExpectedCompleteWrite"
                THEN Receive(e.base.op + 1, e.out, e.yield.size)
                ELSE IF e.yield.kind = "ExpectedPartialWrite"
                THEN Receive(e.base.op + 1, e.out, Len(write_buffer))
                ELSE offered
    /\ UNCHANGED <<controller, dropped, ram, driver>>
    /\ UNCHANGED expander

\* the user of the target calls listen_expect_read
ListenExpectReadCall(expected_address, read_buffer) ==
    /\ ~panicked /\ ~dropped
    /\ handler = None
    /\ ListenReady(S, to_target)
    /\ LET e == ListenExpectRead(S, to_target, expected_address, read_buffer)
       IN /\ Apply(e.s)
          /\ to_target' = e.chan
          /\ handler' = e.h
          /\ listened' = Some(e.base.yield)
          /\ yields' = NoteYield(e.base)
          /\ last_call' = ExpectCall("listen_expect_read", e)
          /\ offered' = IF e.yield.kind \in {"ExpectedCompleteRead", "ExpectedPartialRead"}
                        THEN [offered EXCEPT ![e.base.op + 1] =
                                 SliceTo(read_buffer,
                                         Min(Len(read_buffer),
                                             Len(controller.operations[e.base.op + 1].buf)))]
                        ELSE offered
          /\ reported' =
                IF e.yield.kind = "ExpectedCompleteRead"
                THEN Report(e.base.op + 1, e.yield.size, "complete")
                ELSE IF e.yield.kind = "ExpectedPartialRead"
                THEN Report(e.base.op + 1, Len(read_buffer), "no")
                ELSE reported
    /\ UNCHANGED <<controller, dropped, ram, driver>>
    /\ UNCHANGED expander

Call(method, h, buffer, ovc, result, out) ==
    [method |-> method, before |-> h, buffer |-> buffer, ovc |-> ovc,
     result |-> result, out |-> out,
     txn |-> CurrentTxn.responder, op |-> CurrentTxn.current_op,
     len |-> Len(Unwrap(Current(CurrentTxn)).buf)]

\* OnRead::handle_part called by the user
ReadHandlePart(buffer) ==
    /\ ~panicked
    /\ IsSome(handler) /\ Unwrap(handler).kind = "OnRead"
    /\ LET h == Unwrap(handler)
           p == OnReadHandlePart(S, h, buffer)
       IN /\ Apply(p.s)
          /\ handler' = p.h
          /\ last_call' = Call("handle_part", h, buffer, None, p.result, <<>>)
          /\ offered' = Offer(buffer)
          /\ reported' = ReportPart(CurrentTxn.current_op + 1, buffer, p.result)
          /\ yields' = NoteNack(p.s)
    /\ UNCHANGED <<controller, to_target, listened, dropped, ram, driver>>
    /\ UNCHANGED expander

\* AsyncReadTransaction::handle_complete called by the user
ReadHandleCompleteCall(buffer, ovc) ==
    /\ ~panicked
    /\ IsSome(handler) /\ Unwrap(handler).kind = "OnRead"
    /\ LET h == Unwrap(handler)
           p == ReadHandleComplete(S, h, buffer, ovc)
       IN /\ Apply(p.s)
          /\ handler' = None
          /\ last_call' = Call("handle_complete", h, buffer, Some(ovc),
                               [tag |-> "Returned", n |-> p.n], <<>>)
          /\ offered' = Offer(buffer \o Repeat(ovc, MaxLen))
          /\ reported' = Report(CurrentTxn.current_op + 1, p.n, "complete")
          /\ yields' = NoteNack(p.s)
    /\ UNCHANGED <<controller, to_target, listened, dropped, ram, driver>>
    /\ UNCHANGED expander

\* the user releases a read handler
ReleaseRead ==
    /\ ~panicked
    /\ IsSome(handler) /\ Unwrap(handler).kind = "OnRead"
    /\ LET h == Unwrap(handler)
           s2 == DropOnRead(S, h)
       IN /\ Apply(s2)
          /\ handler' = None
          /\ last_call' = Call("drop", h, <<>>, None, [tag |-> "Dropped"], <<>>)
          /\ offered' = IF h.did_start THEN Offer(Repeat(FILL, MaxLen)) ELSE offered
          /\ reported' = Report(CurrentTxn.current_op + 1, 0, "released")
          /\ yields' = NoteNack(s2)
    /\ UNCHANGED <<controller, to_target, listened, dropped, ram, driver>>
    /\ UNCHANGED expander

\* the responders of the transactions the SimTarget owns: the queued ones
\* and the current one
OwnedResponders ==
    { to_target[i].responder : i \in 1..Len(to_target) }
        \cup (IF IsSome(target.current_transaction)
              THEN {CurrentTxn.responder} ELSE {})

\* the SimTarget is dropped: its receiver and its current transaction go,
\* and with them the responders' senders. A live handler borrows the target,
\* so it is gone before the target can be. Nothing is left of the target
\* and of its user's calls.
DropTarget ==
    /\ ~panicked /\ ~dropped
    /\ handler = None
    /\ dropped' = TRUE
    /\ to_target' = <<>>
    /\ target' = SimTargetNew
    /\ responder' = IF IsSome(responder) /\ Unwrap(responder).id \in OwnedResponders
                    THEN Some([Unwrap(responder) EXCEPT !.value = Some(RecvError)])
                    ELSE responder
    /\ listened' = None
    /\ last_call' = NoCall
    /\ UNCHANGED <<controller, handler, panicked, yields, offered, reported, ram, driver>>
    /\ UNCHANGED expander

\* OnWrite::handle_part called by the user
WriteHandlePart(buffer) ==
    /\ ~panicked
    /\ IsSome(handler) /\ Unwrap(handler).kind = "OnWrite"
    /\ LET h == Unwrap(handler)
           p == OnWriteHandlePart(S, h, buffer)
       IN /\ Apply(p.s)
          /\ handler' = p.h
          /\ last_call' = Call("handle_part", h, buffer, None, p.result, p.out)
          /\ reported' = ReportPart(CurrentTxn.current_op + 1, buffer, p.result)
          /\ offered' = Receive(CurrentTxn.current_op + 1, p.out,
                                IF p.result.tag = "Complete"
                                THEN p.result.n ELSE Len(buffer))
          /\ yields' = NoteNack(p.s)
    /\ UNCHANGED <<controller, to_target, listened, dropped, ram, driver>>
    /\ UNCHANGED expander

\* AsyncWriteTransaction::handle_complete called by the user
WriteHandleCompleteCall(buffer) ==
    /\ ~panicked
    /\ IsSome(handler) /\ Unwrap(handler).kind = "OnWrite"
    /\ LET h == Unwrap(handler)
           p == WriteHandleComplete(S, h, buffer)
       IN /\ Apply(p.s)
          /\ handler' = None
          /\ last_call' = Call("handle_complete", h, buffer, None,
                               [tag |-> "Returned", n |-> p.n], p.out)
          /\ reported' = Report(CurrentTxn.current_op + 1, p.n, "complete")
          /\ offered' = Receive(CurrentTxn.current_op + 1, p.out, p.n)
          /\ yields' = NoteNack(p.s)
    /\ UNCHANGED <<controller, to_target, listened, dropped, ram, driver>>
    /\ UNCHANGED expander

\* the user releases a write handler
ReleaseWrite ==
    /\ ~panicked
    /\ IsSome(handler) /\ Unwrap(handler).kind = "OnWrite"
    /\ LET h == Unwrap(handler)
           s2 == DropOnWrite(S, h)
       IN /\ Apply(s2)
          /\ handler' = None
          /\ last_call' = Call("drop", h, <<>>, None, [tag |-> "Dropped"], <<>>)
          /\ reported' = Report(CurrentTxn.current_op + 1, 0, "released")
          /\ yields' = NoteNack(s2)
    /\ UNCHANGED <<controller, to_target, listened, offered, dropped, ram, driver>>
    /\ UNCHANGED expander

\* ------------------------------------------------------------ cancellation
\* whether listen is at its only await, from_controller.recv(): no Deselect
\* to report and no current transaction
ListenSuspends(s) ==
    /\ ~s.t.need_to_report_deselect
    /\ ~IsSome(s.t.current_transaction)

\* the future of listen is dropped at its await.  Receiver::recv takes a
\* message only when it returns it, so the channel keeps what was sent and
\* the target holds nothing
CancelListen ==
    /\ ~panicked /\ ~dropped
    /\ handler = None
    /\ ListenSuspends(S)
    /\ last_call' = [method |-> "cancel_listen", txn |-> controller.txn,
                     queued |-> to_target]
    /\ UNCHANGED <<controller, to_target, responder, target, handler, panicked,
                   listened, yields, offered, reported, dropped, ram, driver>>
    /\ UNCHANGED expander

\* the future of handle_part is dropped before it has run (it has no await,
\* so it cannot be dropped half way): the handler it owns is dropped with it
CancelHandlePart ==
    /\ ~panicked
    /\ IsSome(handler)
    /\ LET h == Unwrap(handler)
           s2 == IF h.kind = "OnRead" THEN DropOnRead(S, h) ELSE DropOnWrite(S, h)
       IN /\ Apply(s2)
          /\ handler' = None
          /\ last_call' = Call("cancel_handle_part", h, <<>>, None,
                               [tag |-> "Dropped"], <<>>)
          /\ offered' = IF h.kind = "OnRead" /\ h.did_start
                        THEN Offer(Repeat(FILL, MaxLen)) ELSE offered
          /\ reported' = Report(CurrentTxn.current_op + 1, 0, "released")
          /\ yields' = NoteNack(s2)
    /\ UNCHANGED <<controller, to_target, listened, dropped, ram, driver>>
    /\ UNCHANGED expander

\* ------------------------------------------------------------ i2c-ram steps
\* the controller as SimController::transaction leaves it for the next call
ControllerIdle ==
    [controller EXCEPT !.pc = "idle", !.address = None,
                       !.operations = <<>>, !.result = None]

\* a driver call returns without (another) transaction
DriverReturn(d, result) ==
    /\ driver' = [d EXCEPT !.pc = "returned", !.result = Some(result)]
    /\ controller' = ControllerIdle
    /\ offered' = <<>>
    /\ reported' = <<>>
    /\ UNCHANGED <<to_target, responder>>
    /\ UNCHANGED expander

\* I2cRam::write at chunk i: the chunk's address must fit a u16, then the
\* address and the chunk go out as one write transaction
SendChunk(d, i) ==
    LET chunk_address == d.at + i * CHUNK_SIZE
    IN IF chunk_address >= U16
       THEN DriverReturn(d, OutOfBounds)
       ELSE /\ SendTransaction(d.address,
                      <<WriteOp(ToLeBytes(chunk_address) \o Chunk(d.data, i))>>)
            /\ driver' = [d EXCEPT !.pc = "busy", !.i = i,
                                   !.sent = Append(@, ToLeBytes(chunk_address)
                                                         \o Chunk(d.data, i))]

\* I2cRam::read up to the await: write_read of the address and the buffer
RamRead(address, buf) ==
    /\ ~panicked
    /\ driver.pc = "idle" /\ driver.calls < MaxCalls
    /\ controller.pc = "idle"
    /\ SendTransaction(driver.address, <<WriteOp(ToLeBytes(address)), ReadOp(buf)>>)
    /\ driver' = [driver EXCEPT !.pc = "busy", !.op = "read", !.at = address,
                                !.data = <<>>, !.i = 0, !.buf = buf, !.result = None,
                                !.sent = <<>>, !.replies = <<>>]
    /\ UNCHANGED <<target, handler, panicked, listened, last_call, yields, dropped, ram>>
    /\ UNCHANGED expander

\* I2cRam::write up to the first await, or to its return for an empty slice
RamWrite(address, data) ==
    /\ ~panicked
    /\ driver.pc = "idle" /\ driver.calls < MaxCalls
    /\ controller.pc = "idle"
    /\ LET d == [driver EXCEPT
                   !.op = "write", !.at = address, !.data = data, !.i = 0,
                   !.buf = <<>>, !.result = None, !.sent = <<>>, !.replies = <<>>,
                   !.written = @ \cup { a \in 0..(BUFLEN - 1) :
                                           a >= address /\ a < address + Len(data) }]
       IN IF data = <<>> THEN DriverReturn(d, RamOk) ELSE SendChunk(d, 0)
    /\ UNCHANGED <<target, handler, panicked, listened, last_call, yields, dropped, ram>>
    /\ UNCHANGED expander

\* the driver call from the await on: the transaction has returned
RamResume ==
    /\ ~panicked
    /\ driver.pc = "busy"
    /\ controller.pc = "returned"
    /\ LET result == Unwrap(controller.result)
           d == IF driver.op = "write"
                THEN [driver EXCEPT !.replies = Append(@, result)]
                ELSE driver
       IN IF ~result.ok
          THEN DriverReturn(d, DriverError(result.err))
          ELSE IF d.op = "read"
          THEN DriverReturn([d EXCEPT !.buf = controller.operations[2].buf], RamOk)
          ELSE IF d.i + 1 < NumChunks(d.data)
          THEN SendChunk(d, d.i + 1)
          ELSE DriverReturn(d, RamOk)
    /\ UNCHANGED <<target, handler, panicked, listened, last_call, yields, dropped, ram>>
    /\ UNCHANGED expander

\* the caller has the result of the call and may make the next one
RamRetire ==
    /\ driver.pc = "returned"
    /\ driver' = [driver EXCEPT
                    !.pc = "idle", !.calls = @ + 1,
                    !.previous = Some([op |-> driver.op, at |-> driver.at,
                                       data |-> driver.data,
                                       result |-> Unwrap(driver.result)])]
    /\ UNCHANGED <<controller, to_target, responder, target, handler, panicked,
                   listened, last_call, yields, offered, reported, dropped, ram>>
    /\ UNCHANGED expander

\* target_service goes once round its loop; it holds no handler in between
RamServe ==
    /\ ~panicked /\ ~dropped
    /\ handler = None
    /\ ListenReady(S, to_target)
    /\ \E e \in {TargetListen(S, to_target, ram)} :
       \E t \in {TargetService(e, ram)} :
          /\ Apply(t.s)
          /\ to_target' = e.chan
          /\ ram' = t.m
    /\ UNCHANGED <<controller, handler, listened, last_call, yields, offered,
                   reported, dropped, driver>>
    /\ UNCHANGED expander

\* the calls made on the driver: addresses at the start, at the end and past
\* the end of the RAM; writes of no, one and two chunks
RamAddresses == {0, BUFLEN - CHUNK_SIZE - 1, BUFLEN - 2, BUFLEN, BUFLEN + 1}
RamWriteData == {<<>>, Run(1, 2), Run(101, CHUNK_SIZE + 1)}
RamReadLens == {1, 3, CHUNK_SIZE + 1}

\* ----------------------------------------------------- i2c-io-expander steps
\* the caller starts write_read, write or read on the controller
WireCall(ops) ==
    /\ client.pc = "idle" /\ client.calls < MaxCalls
    /\ client' = [client EXCEPT !.pc = "start", !.address = my_address, !.ops = ops,
                                !.op = 1, !.idx = 0, !.err = None, !.result = None]
    /\ UNCHANGED <<wire, server>>
    /\ UNCHANGED simulation

\* to_target.send(action).await goes through
WireSend ==
    /\ client.pc \in {"start", "address", "byte", "ack", "stop", "nack_stop"}
    /\ Len(wire.to_target) < WireCapacity
    /\ wire' = [wire EXCEPT !.to_target = Append(@, Sent(client))]
    /\ client' = AfterSend(client)
    /\ UNCHANGED server
    /\ UNCHANGED simulation

\* from_target.recv().await returns
WireRecv ==
    /\ client.pc \in {"wait_address", "wait_byte"}
    /\ wire.to_controller # <<>>
    /\ wire' = [wire EXCEPT !.to_controller = Tail(@)]
    /\ client' = AfterRecv(client, Head(wire.to_controller))
    /\ UNCHANGED server
    /\ UNCHANGED simulation

\* the caller has the result; a well-formed write that returned Ok counts
\* as stored
WireRetire ==
    /\ client.pc = "returned"
    /\ client' = [client EXCEPT
                    !.pc = "idle", !.calls = @ + 1, !.previous = client.ops,
                    !.shadow = IF WellFormedWrite(client.ops)
                                  /\ client.result = Some(OkResult)
                               THEN [@ EXCEPT ![client.ops[1].buf[1]] =
                                        FromLeBytes32(SliceFrom(client.ops[1].buf, 1))]
                               ELSE @]
    /\ UNCHANGED <<wire, server>>
    /\ UNCHANGED simulation

\* the task of run takes the next ControllerAction and goes on to its next recv
WireServe ==
    /\ server.pc # "panicked"
    /\ wire.to_target # <<>>
    /\ \E step \in {Serve(server, Head(wire.to_target))} :
          /\ Len(wire.to_controller) + Len(step.react) <= WireCapacity
          /\ server' = step.server
          /\ wire' = [to_target |-> Tail(wire.to_target),
                      to_controller |-> wire.to_controller \o step.react]
    /\ UNCHANGED client
    /\ UNCHANGED simulation

\* the calls made: write_read of a register byte with a read of four or five
\* bytes, writes of a register byte with no to five data bytes, an empty
\* write and a lone read; the first and the last register and one past it
ExpanderRegs == {0, NumRegs - 1, NumRegs}
ExpanderData == {<<>>, <<1, 2, 3>>, <<7, 0, 0, 1>>, <<1, 2, 3, 4>>, <<1, 2, 3, 4, 5>>}
ExpanderCalls ==
    { <<WriteOp(<<reg>>), ReadOp(Repeat(255, n))>> : reg \in ExpanderRegs, n \in {4, 5} }
    \cup { <<WriteOp(<<reg>> \o data)>> : reg \in ExpanderRegs, data \in ExpanderData }
    \cup { <<WriteOp(<<>>)>>, <<ReadOp(Repeat(255, 4))>> }

\* bytes offered so far to the op a live handler is about
Supplied ==
    IF IsSome(handler) /\ IsSome(target.current_transaction)
       /\ CurrentTxn.current_op < Len(offered)
    THEN Len(offered[CurrentTxn.current_op + 1])
    ELSE 0

Next ==
    \/ \E r \in Requests : Transaction(r[1], r[2])
    \/ Await
    \/ Retire
    \/ Listen
    \/ \E a \in ExpectArgs(ExpectWriteBuffers) : ListenExpectWriteCall(a[1], a[2])
    \/ \E a \in ExpectArgs(ExpectReadBuffers) : ListenExpectReadCall(a[1], a[2])
    \/ \E buffer \in SupplyBuffers(Supplied) : ReadHandlePart(buffer)
    \/ \E buffer \in SupplyBuffers(Supplied), ovc \in OvcBytes :
           ReadHandleCompleteCall(buffer, ovc)
    \/ ReleaseRead
    \/ \E buffer \in ZeroBuffers : WriteHandlePart(buffer)
    \/ \E buffer \in ZeroBuffers : WriteHandleCompleteCall(buffer)
    \/ ReleaseWrite
    \/ DropTarget

Spec == Init /\ [][Next]_vars

\* ------------------------------------- the simulator with cancelled futures
CancelNext ==
    \/ \E r \in Requests : Transaction(r[1], r[2])
    \/ Await
    \/ Retire
    \/ Listen
    \/ \E buffer \in SupplyBuffers(Supplied) : ReadHandlePart(buffer)
    \/ \E buffer \in ZeroBuffers : WriteHandlePart(buffer)
    \/ ReleaseRead
    \/ ReleaseWrite
    \/ DropTarget
    \/ CancelListen
    \/ CancelHandlePart

CancelSpec == Init /\ [][CancelNext]_vars

\* ------------------------------------- a target that keeps serving the bus
\* the target resolves the handler it holds: it completes or releases it
Resolve ==
    \/ \E buffer \in SupplyBuffers(Supplied), ovc \in OvcBytes :
           ReadHandleCompleteCall(buffer, ovc)
    \/ ReleaseRead
    \/ \E buffer \in ZeroBuffers : WriteHandleCompleteCall(buffer)
    \/ ReleaseWrite

\* the transactions submitted, to one address: the operation lists with
\* operations of no, one and MaxLen bytes
LiveRequests ==
    { r \in Requests :
        /\ r[1] = TARGET_ADDR
        /\ \A i \in 1..Len(r[2]) : Len(r[2][i].buf) \in {0, 1, MaxLen} }

LiveNext ==
    \/ \E r \in LiveRequests : Transaction(r[1], r[2])
    \/ Await
    \/ Retire
    \/ Listen
    \/ \E buffer \in SupplyBuffers(Supplied) : ReadHandlePart(buffer)
    \/ \E buffer \in ZeroBuffers : WriteHandlePart(buffer)
    \/ Resolve

\* the target is never dropped and calls listen whenever it holds no handler;
\* it keeps no handler for ever: a handler that is neither completed nor
\* released before is released in the end; the controller's task is polled
LiveSpec ==
    /\ Init
    /\ [][LiveNext]_vars
    /\ WF_vars(Listen)
    /\ WF_vars(ReleaseRead)
    /\ WF_vars(ReleaseWrite)
    /\ WF_vars(Await)

\* ---------------------------------------------- the RAM example on the simulator
\* the driver is built with the address the service expects or with another one
RamInit ==
    /\ SimulatorInit
    /\ ram = TargetServiceNew
    /\ \E address \in ExpectedAddresses : driver = I2cRamNew(address)
    /\ wire = None
    /\ client = None
    /\ server = None

RamNext ==
    \/ \E address \in RamAddresses, n \in RamReadLens, c \in CallerBytes :
           RamRead(address, Repeat(c, n))
    \/ \E address \in RamAddresses, data \in RamWriteData : RamWrite(address, data)
    \/ Await
    \/ RamResume
    \/ RamRetire
    \/ RamServe

RamSpec == RamInit /\ [][RamNext]_vars

\* ------------------------- the I2cRam driver against a target that takes all
\* the calls made on the driver: writes of no, one, two and three chunks at
\* the start of the address range and where the chunk addresses run out of
\* the u16
DriverAddresses == {0, U16 - CHUNK_SIZE - 1, U16 - CHUNK_SIZE, U16 - 6}
DriverWriteData == {<<>>, Run(1, 2), Run(101, CHUNK_SIZE + 1), Run(1, 2 * CHUNK_SIZE + 1)}

DriverInit ==
    /\ SimulatorInit
    /\ ram = None
    /\ driver = I2cRamNew(TARGET_ADDR)
    /\ wire = None
    /\ client = None
    /\ server = None

\* the target takes each write whole, whatever its address bytes, or
\* releases its handler
DriverNext ==
    \/ \E address \in DriverAddresses, data \in DriverWriteData : RamWrite(address, data)
    \/ Await
    \/ RamResume
    \/ RamRetire
    \/ Listen
    \/ WriteHandleCompleteCall(Repeat(0, CHUNK_SIZE + 2))
    \/ ReleaseWrite

DriverSpec == DriverInit /\ [][DriverNext]_vars

\* -------------------------------------- the I/O expander on the wire simulator
ExpanderInit ==
    /\ SimulatorInit
    /\ ram = None
    /\ driver = None
    /\ wire = [to_target |-> <<>>, to_controller |-> <<>>]
    /\ client = ClientNew
    /\ server = ServerNew(my_address)

ExpanderNext ==
    \/ \E ops \in ExpanderCalls : WireCall(ops)
    \/ WireSend
    \/ WireRecv
    \/ WireRetire
    \/ WireServe

ExpanderSpec == ExpanderInit /\ [][ExpanderNext]_vars

\* ---------------------------------------------------- vocabulary of the claims
\* bytes moved through a handler so far
Moved(h) == IF h.kind = "OnRead" THEN h.bytes_filled ELSE h.bytes_read

\* the transaction in flight has not been answered
Unanswered ==
    /\ controller.pc = "waiting"
    /\ responder = Some([id |-> controller.txn, value |-> None])

\* the controller's call for the transaction of last_call returns `result`:
\* the reply is on its way or the call has returned it
ControllerSees(result) ==
    /\ controller.txn = last_call.txn
    /\ \/ /\ controller.pc = "waiting"
          /\ responder = Some([id |-> controller.txn,
                               value |-> Some(ErrReply(result.err))])
       \/ /\ controller.pc = "returned"
          /\ controller.result = Some(result)

\* the op of last_call was advanced and is not NACKed
OpAdvanced ==
    /\ Unanswered
    /\ ~target.need_to_report_deselect
    /\ IsSome(target.current_transaction)
    /\ CurrentTxn.responder = last_call.txn
    /\ CurrentTxn.current_op = last_call.op + 1

\* the op of last_call is still the current one and is not NACKed
OpPending ==
    /\ Unanswered
    /\ ~target.need_to_report_deselect
    /\ IsSome(target.current_transaction)
    /\ CurrentTxn.responder = last_call.txn
    /\ CurrentTxn.current_op = last_call.op

\* the buffer of the op of last_call as the target holds it
OpBuf == CurrentTxn.transaction.actions[last_call.op + 1].buf

\* the caller's op of last_call
CallerOp == controller.operations[last_call.op + 1]

Released(kind) == last_call.method = "drop" /\ last_call.before.kind = kind

C2_HeldByteReleaseNacksData ==
    (Released("OnWrite") /\ Moved(last_call.before) > 0)
        => ControllerSees(ErrResult(NoAcknowledge("Data")))

C2_Witness ==
    /\ Released("OnWrite")
    /\ Moved(last_call.before) > 0
    /\ Moved(last_call.before) = last_call.len
    /\ controller.pc = "returned"
    /\ controller.result = Some(ErrResult(NoAcknowledge("Data")))

\* a listen call returned a Read or Write handler in this step
HandlerYielded == handler = None /\ handler' # None

\* C3: after a NACK committed by releasing a handler the target's next listen
\* returns Deselect without looking at a further transaction, it does so once,
\* and the listen after it is about a later transaction: it yields that
\* transaction's Read or Write, or the Deselect that ends it when it is empty.
C3_DeselectOnceAfterNack ==
    [][ /\ (yields.nack = 0 /\ yields'.nack = 1)
            => /\ listened' = Some(Deselect)
               /\ handler' = None
               /\ to_target' = to_target
               /\ responder' = responder
        /\ (yields.nack = 1 /\ yields'.nack = 2)
            => /\ to_target # <<>>
               /\ to_target' = Tail(to_target)
               /\ Head(to_target).responder > yields.txn
               /\ IF yields'.txn # yields.txn
                  THEN yields'.txn = Head(to_target).responder
                  ELSE /\ listened' = Some(Deselect)
                       /\ Head(to_target).transaction.actions = <<>>
      ]_vars

C3_Witness ==
    /\ yields.nack = 2
    /\ IsSome(handler)
    /\ Unwrap(listened).kind = "Write"
    /\ yields.deselects = 0
    /\ yields.txn = yields.prev + 1

\* C4: between the last Read/Write yield of one transaction and the first
\* Read/Write yield of the next transaction listen returns Deselect exactly
\* once; across transactions without ops, each of which ends with its own
\* Deselect, the count is the distance between the two transactions.
C4_DeselectDiscipline ==
    [][ (HandlerYielded /\ yields.txn # 0 /\ yields'.txn # yields.txn)
            => /\ yields'.txn > yields.txn
               /\ yields'.op = 0
               /\ yields.deselects = yields'.txn - yields.txn
               /\ (yields'.txn = yields.txn + 1 => yields.deselects = 1)
      ]_vars

C4_Witness ==
    /\ IsSome(handler)
    /\ yields.prev # 0
    /\ yields.txn = yields.prev + 1
    /\ yields.nack = -1

\* C5: in a multi-op transaction whose ops are all acknowledged, listen yields
\* one handler per op, in op order, with the op's direction and the
\* transaction's address, and no Deselect between two ops; on success each
\* read slice of the caller holds the bytes the target supplied for that op.
C5_OneHandlerPerOp ==
    /\ [][ HandlerYielded
            => /\ IsSome(target'.current_transaction)
               /\ LET pt == Unwrap(target'.current_transaction)
                  IN /\ pt.responder = controller.txn
                     /\ yields'.txn = controller.txn
                     /\ yields'.op = pt.current_op
                     /\ pt.current_op < Len(controller.operations)
                     /\ Unwrap(listened').kind =
                            controller.operations[pt.current_op + 1].kind
                     /\ Some(Unwrap(listened').address) = controller.address
                     /\ Unwrap(handler').kind =
                            (IF Unwrap(listened').kind = "Read"
                             THEN "OnRead" ELSE "OnWrite")
                     /\ IF yields'.txn = yields.txn
                        THEN yields'.op = yields.op + 1 /\ yields.deselects = 0
                        ELSE yields'.op = 0
         ]_vars
    /\ [](  (controller.pc = "returned" /\ controller.result = Some(OkResult))
            => /\ controller.operations # <<>>
                   => /\ yields.txn = controller.txn
                      /\ yields.op = Len(controller.operations) - 1
               /\ \A i \in 1..Len(controller.operations) :
                      controller.operations[i].kind = "Read"
                          => controller.operations[i].buf = offered[i] )

C5_Witness ==
    /\ controller.pc = "returned"
    /\ controller.result = Some(OkResult)
    /\ Len(controller.operations) = 2
    /\ controller.operations[1].kind = "Write"
    /\ controller.operations[2] = ReadOp(<<3, 4>>)

\* the reply that NACKs the transaction in flight with `src`
NackReply(src) ==
    Some([id |-> controller.txn, value |-> Some(ErrReply(NoAcknowledge(src)))])

C7_ReadHandleComplete ==
    /\ (last_call.method = "handle_complete" /\ last_call.before.kind = "OnRead")
        => LET F == last_call.before.bytes_filled
               L == last_call.len
               k == Min(L - F, Len(last_call.buffer))
           IN /\ last_call.result.n = L - F
              /\ (last_call.before = OnReadNew => last_call.result.n = L)
              /\ OpAdvanced
              /\ Len(OpBuf) = L
              /\ SliceFrom(OpBuf, F) =
                     SliceTo(last_call.buffer, k)
                         \o Repeat(Unwrap(last_call.ovc), L - F - k)
              /\ OpBuf = offered[last_call.op + 1]
    /\ (controller.pc = "returned" /\ controller.result = Some(OkResult))
        => \A i \in 1..Len(controller.operations) :
               controller.operations[i].kind = "Read"
                   => controller.operations[i].buf = offered[i]

C7_Witness ==
    /\ controller.pc = "returned"
    /\ controller.result = Some(OkResult)
    /\ \E i \in 1..Len(controller.operations) :
           controller.operations[i] = ReadOp(<<3, 255>>)

\* C8: releasing a read handler through which at least one byte was supplied
\* does not NACK: every remaining position of the read buffer gets the
\* overrun byte 0x2a, the op is advanced and the transaction is still
\* unanswered, so that it can complete with Ok.
C8_StartedReadReleaseFills ==
    (Released("OnRead") /\ Moved(last_call.before) >= 1)
        => LET F == last_call.before.bytes_filled
               L == last_call.len
           IN /\ F < L
              /\ OpAdvanced
              /\ Len(OpBuf) = L
              /\ SliceFrom(OpBuf, F) = Repeat(FILL, L - F)
              /\ SliceTo(OpBuf, F) = SliceTo(offered[last_call.op + 1], F)
              /\ FILL = 42

C8_Witness ==
    /\ controller.pc = "returned"
    /\ controller.result = Some(OkResult)
    /\ \E i \in 1..Len(controller.operations) :
           controller.operations[i] = ReadOp(<<3, 42>>)

\* C9: write handle_part with a non-empty buffer while R bytes of the payload
\* are not yet received: with R < len(buffer) it copies the R bytes, returns
\* Complete(R) and the op is acknowledged; with R >= len(buffer), R = len(buffer)
\* included, it copies len(buffer) bytes and returns Partial, the op pending.
C9_WriteHandlePart ==
    (last_call.method = "handle_part" /\ last_call.before.kind = "OnWrite"
     /\ last_call.buffer # <<>>)
        => LET F == last_call.before.bytes_read
               R == last_call.len - F
               B == Len(last_call.buffer)
               payload == CallerOp.buf
           IN /\ Len(payload) = last_call.len
              /\ IF R < B
                 THEN /\ last_call.result = Complete(R)
                      /\ last_call.out =
                             SliceFrom(payload, F) \o SliceFrom(last_call.buffer, R)
                      /\ handler = None
                      /\ OpAdvanced
                 ELSE /\ last_call.result = Partial
                      /\ last_call.out = SubSeq(payload, F + 1, F + B)
                      /\ handler = Some([kind |-> "OnWrite", bytes_read |-> F + B,
                                         did_start |-> TRUE])
                      /\ OpPending

C9_Witness ==
    /\ last_call.method = "handle_part"
    /\ last_call.before.kind = "OnWrite"
    /\ last_call.buffer # <<>>
    /\ Len(last_call.buffer) = last_call.len - last_call.before.bytes_read
    /\ last_call.result = Partial
    /\ IsSome(handler)

\* C10: write handle_complete(buffer) on a fresh handler for a payload of P
\* bytes: with P <= len(buffer) all P bytes are received and acknowledged, the
\* call returns P and the op is advanced; with P > len(buffer) the buffer gets
\* the first len(buffer) bytes, the call returns len(buffer) and the
\* controller's call returns NoAcknowledge(Data).
C10_WriteHandleComplete ==
    (last_call.method = "handle_complete" /\ last_call.before = OnWriteNew)
        => LET P == last_call.len
               B == Len(last_call.buffer)
               payload == CallerOp.buf
           IN /\ Len(payload) = P
              /\ IF P <= B
                 THEN /\ last_call.result.n = P
                      /\ last_call.out = payload \o SliceFrom(last_call.buffer, P)
                      /\ OpAdvanced
                 ELSE /\ last_call.result.n = B
                      /\ last_call.out = SliceTo(payload, B)
                      /\ ControllerSees(ErrResult(NoAcknowledge("Data")))

C10_Witness ==
    /\ last_call.method = "handle_complete"
    /\ last_call.before = OnWriteNew
    /\ last_call.len = 2
    /\ Len(last_call.buffer) = 1
    /\ last_call.out = <<1>>
    /\ controller.pc = "returned"
    /\ controller.result = Some(ErrResult(NoAcknowledge("Data")))

\* C11: read handle_part with a non-empty slice while R positions of the read
\* are unfilled: it supplies the first min(R, len(bytes)) bytes in order; with
\* R <= len(bytes) it returns Complete(R) and the op is advanced, with
\* R > len(bytes) it returns Partial and the op stays pending.
C11_ReadHandlePart ==
    (last_call.method = "handle_part" /\ last_call.before.kind = "OnRead"
     /\ last_call.buffer # <<>>)
        => LET F == last_call.before.bytes_filled
               R == last_call.len - F
               B == Len(last_call.buffer)
           IN /\ Len(OpBuf) = last_call.len
              /\ SliceTo(OpBuf, F) = SliceTo(offered[last_call.op + 1], F)
              /\ IF R <= B
                 THEN /\ last_call.result = Complete(R)
                      /\ SliceFrom(OpBuf, F) = SliceTo(last_call.buffer, R)
                      /\ handler = None
                      /\ OpAdvanced
                 ELSE /\ last_call.result = Partial
                      /\ SubSeq(OpBuf, F + 1, F + B) = last_call.buffer
                      /\ SliceFrom(OpBuf, F + B) = Repeat(0, R - B)
                      /\ handler = Some([kind |-> "OnRead", bytes_filled |-> F + B,
                                         did_start |-> TRUE])
                      /\ OpPending

C11_Witness ==
    /\ last_call.method = "handle_part"
    /\ last_call.before.kind = "OnRead"
    /\ last_call.before.bytes_filled = 1
    /\ last_call.buffer = <<4>>
    /\ last_call.len = 2
    /\ last_call.result = Complete(1)
    /\ OpBuf = <<3, 4>>

\* a listen or listen_expect_* call can be made and returns
CanListen == ~panicked /\ ~dropped /\ handler = None /\ ListenReady(S, to_target)

\* the result of listen_expect_* that stands for the handle_part result p
ExpectedYield(direction, p) ==
    IF p.result.tag = "Complete"
    THEN IF direction = "Write" THEN ExpectedCompleteWrite(p.result.n)
                                ELSE ExpectedCompleteRead(p.result.n)
    ELSE IF direction = "Write" THEN ExpectedPartialWrite ELSE ExpectedPartialRead

\* the op the last listen was about
ListenedOp == controller.operations[yields.op + 1]

\* C12: on a transaction of the expected direction to the expected address,
\* listen_expect_write and listen_expect_read do what listen followed by
\* handle_part on the returned handler does: Complete(n) comes back as
\* ExpectedComplete{size: n}, Partial(h) as ExpectedPartial{handler: h}, with
\* the same bytes moved and the same state of target, channel and reply.
C12_ListenExpectMatches ==
    /\ CanListen =>
        LET l == SimListen(S, to_target)
        IN \A a \in ExpectedAddresses :
            /\ l.yield = WriteYield(a) =>
                \A b \in ZeroBuffers :
                    LET e == ListenExpectWrite(S, to_target, a, b)
                        p == OnWriteHandlePart(l.s, Unwrap(l.h), b)
                    IN /\ e.yield = ExpectedYield("Write", p)
                       /\ e.h = p.h
                       /\ e.out = p.out
                       /\ e.s = p.s
                       /\ e.chan = l.chan
            /\ l.yield = ReadYield(a) =>
                \A b \in SupplyBuffers(0) :
                    LET e == ListenExpectRead(S, to_target, a, b)
                        p == OnReadHandlePart(l.s, Unwrap(l.h), b)
                    IN /\ e.yield = ExpectedYield("Read", p)
                       /\ e.h = p.h
                       /\ e.out = b
                       /\ e.s = p.s
                       /\ e.chan = l.chan
    /\ (last_call.method \in {"listen_expect_write", "listen_expect_read"}
        /\ last_call.result.kind \in {"ExpectedCompleteWrite", "ExpectedCompleteRead"})
        => /\ handler = None
           /\ Unanswered
           /\ CurrentTxn.responder = yields.txn
           /\ CurrentTxn.current_op = yields.op + 1
           /\ last_call.result.size = Len(ListenedOp.buf)
           /\ last_call.result.kind =
                  (IF ListenedOp.kind = "Write" THEN "ExpectedCompleteWrite"
                                                ELSE "ExpectedCompleteRead")
    /\ (last_call.method \in {"listen_expect_write", "listen_expect_read"}
        /\ last_call.result.kind \in {"ExpectedPartialWrite", "ExpectedPartialRead"})
        => /\ IsSome(handler)
           /\ Unanswered
           /\ CurrentTxn.responder = yields.txn
           /\ CurrentTxn.current_op = yields.op
           /\ Unwrap(handler).kind =
                  (IF last_call.method = "listen_expect_write" THEN "OnWrite"
                                                               ELSE "OnRead")
           /\ Moved(Unwrap(handler)) \in ExpectLens

C12_Witness ==
    /\ last_call.method = "listen_expect_write"
    /\ last_call.result = ExpectedCompleteWrite(1)
    /\ yields.op = 1
    /\ handler = None

\* C13: when the next event is a Deselect, a transaction of the other
\* direction or one to another address (other variant or other value),
\* listen_expect_write and listen_expect_read return what listen returns,
\* leave the buffer as it was and move no byte; a handler they return is
\* fresh, so that releasing it NACKs the address.
C13_ListenExpectFallsBack ==
    /\ CanListen =>
        LET l == SimListen(S, to_target)
            FallsBack(e, b) ==
                /\ e.yield = l.yield
                /\ e.yield.kind \in {"Deselect", "Read", "Write"}
                /\ e.out = b
                /\ e.s = l.s
                /\ e.chan = l.chan
                /\ e.h = l.h
                /\ IsSome(e.h) =>
                    LET h == Unwrap(e.h)
                        d == IF h.kind = "OnRead" THEN DropOnRead(e.s, h)
                                                  ELSE DropOnWrite(e.s, h)
                    IN /\ h \in {OnReadNew, OnWriteNew}
                       /\ d.r = Some([id |-> controller.txn,
                                      value |-> Some(ErrReply(NoAcknowledge("Address")))])
        IN \A a \in ExpectedAddresses :
            /\ l.yield # WriteYield(a) =>
                \A b \in ZeroBuffers :
                    FallsBack(ListenExpectWrite(S, to_target, a, b), b)
            /\ l.yield # ReadYield(a) =>
                \A b \in SupplyBuffers(0) :
                    FallsBack(ListenExpectRead(S, to_target, a, b), b)
    /\ (last_call.method \in {"listen_expect_write", "listen_expect_read"}
        /\ last_call.result.kind \in {"Deselect", "Read", "Write"})
        => /\ listened = Some(last_call.result)
           /\ (last_call.result.kind = "Deselect") = (handler = None)
           /\ IsSome(handler) =>
                /\ Unwrap(handler) \in {OnReadNew, OnWriteNew}
                /\ offered[yields.op + 1] = <<>>
                /\ OnReadBuf(S) = ToActions(controller.operations)[yields.op + 1].buf

C13_Witness ==
    /\ last_call.method = "listen_expect_write"
    /\ last_call.result = WriteYield([mode |-> "Seven", value |-> 32])
    /\ handler = Some(OnWriteNew)
    /\ Len(ListenedOp.buf) > 0

\* the controller's call has returned Ok
ReturnedOk == controller.pc = "returned" /\ controller.result = Some(OkResult)

\* C14 as stated: for every op of a transaction the controller sees succeed,
\* the counts the target was told (Complete(n), handle_complete, the lengths
\* of the buffers of Partial results) add up to the bytes of the op.
C14_Original ==
    ReturnedOk
        => \A i \in 1..Len(controller.operations) :
               reported[i].bytes = Len(controller.operations[i].buf)

\* C14, amended: the counts add up to the bytes of the op for every op that
\* ended with Complete(n) or handle_complete. A read op ended by releasing
\* its handler has fewer bytes counted than the controller transferred: the
\* bytes supplied before the release, the rest being 0x2a.
C14_ByteConservation ==
    ReturnedOk
        => \A i \in 1..Len(controller.operations) :
               LET op == controller.operations[i]
                   r == reported[i]
               IN /\ r.ended \in {"complete", "released"}
                  /\ r.ended = "complete" => r.bytes = Len(op.buf)
                  /\ r.ended = "released"
                         => /\ op.kind = "Read"
                            /\ r.bytes >= 1
                            /\ r.bytes < Len(op.buf)
                            /\ SliceTo(op.buf, r.bytes) = Run(3, r.bytes)
                            /\ SliceFrom(op.buf, r.bytes) =
                                   Repeat(FILL, Len(op.buf) - r.bytes)

C14_Witness ==
    /\ ReturnedOk
    /\ Len(controller.operations) = 2
    /\ controller.operations[1].kind = "Write"
    /\ reported[1] = [bytes |-> 1, ended |-> "complete"]
    /\ reported[2] = [bytes |-> 2, ended |-> "complete"]

\* a listen, listen_expect_write or listen_expect_read call returned in this step
ListenCalled ==
    /\ controller' = controller
    /\ last_call'.method \in {"none", "listen_expect_write", "listen_expect_read"}

\* C15: at most one handler is live per target and no listen or
\* listen_expect_* call begins while it is: a handler goes away only by its
\* release or by the call that completes its op, every listen finds no live
\* handler, and a live handler is the handler of the target's current op.
C15_OneLiveHandler ==
    /\ [][ /\ ListenCalled => handler = None
           /\ (handler # None /\ handler' = None)
                => /\ last_call'.method \in {"drop", "handle_part", "handle_complete"}
                   /\ last_call'.before = Unwrap(handler)
                   /\ last_call'.method = "handle_part"
                        => last_call'.result.tag = "Complete"
           /\ (handler # None /\ handler' # None)
                => /\ last_call'.method = "handle_part"
                   /\ last_call'.result = Partial
                   /\ Unwrap(handler').kind = Unwrap(handler).kind
                   /\ Unwrap(target'.current_transaction).current_op =
                          CurrentTxn.current_op
         ]_vars
    /\ [](IsSome(handler)
            => /\ IsSome(target.current_transaction)
               /\ ~target.need_to_report_deselect
               /\ Unanswered
               /\ Current(CurrentTxn) # None
               /\ Unwrap(Current(CurrentTxn)).kind =
                      (IF Unwrap(handler).kind = "OnRead" THEN "Read" ELSE "Write"))

C15_Witness ==
    /\ IsSome(handler)
    /\ last_call = NoCall
    /\ yields.op = 1
    /\ reported[1].ended = "released"

\* the transactions sent and not yet answered: queued in the channel or held
\* by the target as its current transaction
InFlight ==
    Len(to_target) + (IF IsSome(target.current_transaction) THEN 1 ELSE 0)

\* C16: at most one controller transaction is in flight: while a transaction
\* is unanswered, queued or held by the target, no other one is accepted into
\* the channel or taken by the target, whatever the interleaving of the
\* controller's and the target's steps; try_send never finds the channel full
\* (it fails only on the channel of a dropped target).
C16_SingleInFlight ==
    /\ InFlight <= 1
    /\ controller.pc = "panicked" => dropped
    /\ InFlight = 1
        => /\ Unanswered
           /\ \A i \in 1..Len(to_target) : to_target[i].responder = controller.txn
           /\ IsSome(target.current_transaction)
                => CurrentTxn.responder = controller.txn
    /\ (IsSome(responder) /\ IsSome(Unwrap(responder).value)) => InFlight = 0
    /\ controller.pc \in {"idle", "returned"} => InFlight = 0

C16_Witness ==
    /\ to_target # <<>>
    /\ controller.txn = 2
    /\ target.need_to_report_deselect
    /\ Unanswered

\* the address the target's user serves; SimTarget itself holds no address
OwnAddress == [mode |-> "Seven", value |-> 32]

\* C17 as stated: a transaction to another address than the target's gets an
\* address NACK and no Read or Write handler of it is returned by listen.
C17_Original ==
    (IsSome(controller.address) /\ Unwrap(controller.address) # OwnAddress)
        => /\ handler = None
           /\ controller.pc = "returned"
                => controller.result = Some(ErrResult(NoAcknowledge("Address")))

\* C17, amended: the target filters no address. listen returns a Read or
\* Write handler for a transaction to any address, with that address; when
\* the user releases the unused handler of a transaction to another address
\* than its own, the controller gets NoAcknowledge(Address), the next listen
\* returns Deselect and no further handler of that transaction is returned.
C17_AddressLeftToUser ==
    /\ IsSome(handler)
        => /\ Unanswered
           /\ Unwrap(listened).kind \in {"Read", "Write"}
           /\ Some(Unwrap(listened).address) = controller.address
    /\ (last_call.method = "drop" /\ Moved(last_call.before) = 0
        /\ Unwrap(listened).address # OwnAddress)
        => /\ ControllerSees(ErrResult(NoAcknowledge("Address")))
           /\ handler = None
           /\ target.current_transaction = None
           /\ target.need_to_report_deselect
           /\ SimListen(S, to_target).yield = Deselect
           /\ SimListen(S, to_target).chan = to_target

C17_Witness ==
    /\ last_call.method = "drop"
    /\ listened = Some(ReadYield([mode |-> "Ten", value |-> 32]))
    /\ controller.pc = "returned"
    /\ controller.result = Some(ErrResult(NoAcknowledge("Address")))

\* C18: when the target half is dropped while the controller's transaction
\* is unanswered, whether still queued in the channel or held as the current
\* transaction, the responder closes and the controller's pending call
\* returns the error Other: not Ok, not NoAcknowledge, and no read slice of
\* the caller is written.
C18_DroppedTargetGivesOther ==
    /\ [][ /\ (Unanswered /\ ~dropped /\ dropped')
               => /\ InFlight = 1
                  /\ responder' = Some([id |-> controller.txn,
                                        value |-> Some(RecvError)])
           /\ (controller.pc = "waiting" /\ controller'.pc # "waiting"
               /\ Unwrap(responder).value = Some(RecvError))
               => /\ controller'.pc = "returned"
                  /\ controller'.result = Some(ErrResult(Other))
                  /\ controller'.operations = controller.operations ]_vars
    /\ [](IsSome(responder) /\ Unwrap(responder).value = Some(RecvError)
            => /\ dropped
               /\ controller.pc = "waiting"
               /\ Unwrap(responder).id = controller.txn)

C18_Witness ==
    /\ dropped
    /\ controller.pc = "returned"
    /\ controller.result = Some(ErrResult(Other))
    /\ Len(controller.operations) = 2
    /\ reported[1].ended = "complete"
    /\ controller.operations[2].kind = "Read"

\* C19: on a read or write op of length zero, handle_part with a non-empty
\* buffer returns Complete(0) and moves no byte; the handler is gone, the op
\* is advanced and the transaction is not NACKed; the reply of a transaction
\* with such ops passes copy_to_ops, so the controller's call does not fail
\* because of them.
C19_ZeroLengthOp ==
    /\ (last_call.method = "handle_part" /\ last_call.buffer # <<>>
        /\ last_call.len = 0)
        => /\ last_call.result = Complete(0)
           /\ handler = None
           /\ OpAdvanced
           /\ OpBuf = <<>>
           /\ last_call.before.kind = "OnWrite" => last_call.out = last_call.buffer
           /\ reported[last_call.op + 1] = [bytes |-> 0, ended |-> "complete"]
    /\ (IsSome(responder) /\ IsSome(Unwrap(responder).value)
        /\ Unwrap(Unwrap(responder).value).ok)
        => ~CopyToOpsPanics(Unwrap(Unwrap(responder).value).transaction,
                            controller.operations)

C19_Witness ==
    /\ last_call.method = "handle_part"
    /\ last_call.before.kind = "OnRead"
    /\ last_call.buffer = <<3, 4>>
    /\ last_call.len = 0
    /\ last_call.result = Complete(0)
    /\ CurrentTxn.current_op = 2

\* the controller's call is answered NoAcknowledge: the reply is on its way
\* or the call has returned it
AnsweredNoAcknowledge ==
    \/ /\ controller.pc = "waiting"
       /\ \E src \in {"Address", "Data"} : responder = NackReply(src)
    \/ /\ controller.pc = "returned"
       /\ \E src \in {"Address", "Data"} :
              controller.result = Some(ErrResult(NoAcknowledge(src)))

\* op i (1-based) of the transaction in flight was NACKed by the release of
\* its handler: a write handler, or a read handler that took no byte
ReleaseNacked(i) ==
    /\ reported[i].ended = "released"
    /\ controller.operations[i].kind = "Write" \/ reported[i].bytes = 0

\* C20: a transaction is all or nothing. Once the handler of any op is
\* released with a NACK, the controller's call is answered NoAcknowledge,
\* also when earlier ops were completed. A call answered NoAcknowledge
\* leaves every read slice of the caller as it was, those of completed
\* earlier reads too, and the ops after the NACKed one are never presented
\* to the target.
C20_AllOrNothing ==
    /\ \A i \in 1..Len(reported) : ReleaseNacked(i) => AnsweredNoAcknowledge
    /\ AnsweredNoAcknowledge
        => /\ \A i \in 1..Len(controller.operations) :
                  controller.operations[i].kind = "Read"
                      => controller.operations[i].buf
                            = Repeat(9, Len(controller.operations[i].buf))
           /\ yields.txn = controller.txn
           /\ \A i \in 1..Len(reported) :
                  i > yields.op + 1 => reported[i] = [bytes |-> 0, ended |-> "no"]
           /\ InFlight = 0
           /\ handler = None

C20_Witness ==
    /\ controller.pc = "returned"
    /\ controller.result = Some(ErrResult(NoAcknowledge("Data")))
    /\ controller.operations[1] = ReadOp(<<9, 9>>)
    /\ reported[1] = [bytes |-> 2, ended |-> "complete"]
    /\ ReleaseNacked(2)

\* the address NACK as the controller of last_call's transaction gets it
AddressNacked == ControllerSees(ErrResult(NoAcknowledge("Address")))

AllOpsDone ==
    /\ handler = None
    /\ IsSome(target.current_transaction)
    /\ Len(CurrentTxn.transaction.actions) > 0
    /\ CurrentTxn.current_op = Len(CurrentTxn.transaction.actions)

\* C22: once the handler of the last op of a transaction whose ops were all
\* acknowledged is completed or released, the controller's call is resolved
\* with Ok, without a further listen call of the target: no state has all
\* ops done and the call still unanswered, and a call whose ops were all
\* completed does not return an error.
C22_ResolvedAtLastOp ==
    /\ ~(AllOpsDone /\ Unanswered)
    /\ (controller.pc = "returned" /\ Len(reported) > 0
        /\ \A i \in 1..Len(reported) :
              /\ reported[i].ended = "complete"
              /\ reported[i].bytes = Len(controller.operations[i].buf))
        => controller.result = Some(OkResult)

\* C26 as stated: a started write handler released when no byte of the
\* payload remains advances to the next op without a NACK.
C26_Original ==
    (Released("OnWrite") /\ last_call.before.did_start
     /\ last_call.before.bytes_read = last_call.len)
        => OpAdvanced

\* C26, amended: releasing a started write handler NACKs the transaction
\* with NoAcknowledge(Data) in both cases, with payload bytes still
\* unreceived and with the whole payload received (the last byte is held);
\* the release never advances to the next op.
C26_StartedWriteReleaseNacksData ==
    (Released("OnWrite") /\ last_call.before.did_start)
        => /\ last_call.before.bytes_read <= last_call.len
           /\ ControllerSees(ErrResult(NoAcknowledge("Data")))
           /\ ~OpAdvanced
           /\ handler = None
           /\ target.current_transaction = None
           /\ reported[last_call.op + 1].ended = "released"

C26_Witness ==
    /\ Released("OnWrite")
    /\ last_call.before = [kind |-> "OnWrite", bytes_read |-> 2, did_start |-> TRUE]
    /\ last_call.len = 2
    /\ controller.pc = "returned"
    /\ controller.result = Some(ErrResult(NoAcknowledge("Data")))

\* C27 as stated: write handle_part with a non-empty buffer returns
\* Complete(n) whenever the call has consumed the rest of the payload.
C27_Original ==
    (last_call.method = "handle_part" /\ last_call.before.kind = "OnWrite"
     /\ last_call.buffer # <<>>
     /\ last_call.len - last_call.before.bytes_read <= Len(last_call.buffer))
        => last_call.result
              = Complete(last_call.len - last_call.before.bytes_read)

\* C27, amended: write handle_part with a non-empty buffer copies
\* n = min(remaining payload, len(buffer)) bytes to the front of the buffer
\* and leaves the rest of it alone. It returns Complete(n) exactly when the
\* payload ended before the buffer was full; when the payload ends exactly
\* at the end of the buffer the call has consumed the payload but returns
\* Partial, like every call that fills the buffer.
C27_WriteHandlePartResult ==
    (last_call.method = "handle_part" /\ last_call.before.kind = "OnWrite"
     /\ last_call.buffer # <<>>)
        => LET F == last_call.before.bytes_read
               R == last_call.len - F
               B == Len(last_call.buffer)
               n == Min(R, B)
           IN /\ SliceTo(last_call.out, n) = SubSeq(CallerOp.buf, F + 1, F + n)
              /\ SliceFrom(last_call.out, n) = SliceFrom(last_call.buffer, n)
              /\ (last_call.result = Complete(n)) <=> (R < B)
              /\ (last_call.result = Partial) <=> (R >= B)
              /\ R = B => /\ IsSome(handler)
                          /\ Moved(Unwrap(handler)) = last_call.len
                          /\ OnWriteRemaining(S, Unwrap(handler)) = <<>>

C27_Witness ==
    /\ last_call.method = "handle_part"
    /\ last_call.before = OnWriteNew
    /\ last_call.buffer = <<0, 0>>
    /\ last_call.len = 2
    /\ last_call.out = <<1, 2>>
    /\ last_call.result = Partial

\* the handler of last_call held the last byte of its op's payload: the
\* whole payload was received and the handler was still live
HeldLastByte ==
    /\ last_call.method \in {"handle_part", "handle_complete", "drop"}
    /\ last_call.before.kind = "OnWrite"
    /\ last_call.before.did_start
    /\ last_call.len > 0
    /\ last_call.before.bytes_read = last_call.len

\* C28: a write handler that holds the last byte of the payload after a
\* Partial gets the byte acknowledged by the next handle_part with a
\* non-empty buffer, which returns Complete(0), and by handle_complete with
\* any buffer, the empty one included, which returns 0. No byte is copied,
\* the op is advanced without a NACK, and the controller's call does not
\* fail over an op received this way.
C28_HeldLastByteAcknowledged ==
    /\ (HeldLastByte /\ last_call.method = "handle_part" /\ last_call.buffer # <<>>)
        => /\ last_call.result = Complete(0)
           /\ last_call.out = last_call.buffer
    /\ (HeldLastByte /\ last_call.method = "handle_complete")
        => /\ last_call.result = [tag |-> "Returned", n |-> 0]
           /\ last_call.out = last_call.buffer
    /\ (HeldLastByte /\ last_call.method \in {"handle_part", "handle_complete"}
        /\ (last_call.method = "handle_part" => last_call.buffer # <<>>))
        => /\ handler = None
           /\ OpAdvanced
           /\ reported[last_call.op + 1]
                 = [bytes |-> last_call.len, ended |-> "complete"]
    /\ (controller.pc = "returned" /\ ~dropped /\ Len(reported) > 0
        /\ \A i \in 1..Len(reported) :
              /\ controller.operations[i].kind = "Write"
              /\ reported[i] = [bytes |-> Len(controller.operations[i].buf),
                                ended |-> "complete"])
        => controller.result = Some(OkResult)

C28_Witness ==
    /\ HeldLastByte
    /\ last_call.method = "handle_complete"
    /\ last_call.buffer = <<>>
    /\ last_call.len = 2
    /\ last_call.result = [tag |-> "Returned", n |-> 0]
    /\ OpAdvanced

\* ---------------------------------------------------------------- claim C29
\* the op a live handler is about, as the controller passed it
HandlerOp == controller.operations[CurrentTxn.current_op + 1]

\* C29: within an op the bytes move in order, none lost and none twice, over
\* successive handle_part calls.  What a write handler (or the expect-write
\* listen) has put into the user's buffers so far is a prefix of the
\* controller's payload, and a live write handler has consumed exactly that
\* many bytes.  The slices given to a read handler, cut off at the read
\* length, sit in that order at the front of the op's buffer while the handler
\* lives, and are a prefix of what the controller reads once the transaction
\* has returned Ok.
C29_BytesInOrder ==
    /\ \A i \in DOMAIN offered \cap DOMAIN controller.operations :
          /\ Len(offered[i]) <= Len(controller.operations[i].buf)
          /\ controller.operations[i].kind = "Write"
                => offered[i] = SliceTo(controller.operations[i].buf, Len(offered[i]))
          /\ (controller.operations[i].kind = "Read" /\ ReturnedOk)
                => offered[i] = SliceTo(controller.operations[i].buf, Len(offered[i]))
    /\ (IsSome(handler) /\ Unwrap(handler).kind = "OnWrite")
          => /\ Len(offered[CurrentTxn.current_op + 1]) = Unwrap(handler).bytes_read
             /\ HandlerOp.kind = "Write"
    /\ (IsSome(handler) /\ Unwrap(handler).kind = "OnRead")
          => /\ Len(offered[CurrentTxn.current_op + 1]) = Unwrap(handler).bytes_filled
             /\ SliceTo(OnReadBuf(S), Unwrap(handler).bytes_filled)
                   = offered[CurrentTxn.current_op + 1]

\* a write's payload has arrived in the user's buffer, and the read that
\* follows it has been given two one-byte slices, one handle_part call each
C29_Witness ==
    /\ last_call.method = "handle_part"
    /\ Len(last_call.buffer) = 1
    /\ last_call.before.kind = "OnRead"
    /\ last_call.before.bytes_filled = 1
    /\ last_call.op = 1
    /\ controller.operations[1].kind = "Write"
    /\ offered[1] = controller.operations[1].buf
    /\ Len(offered[1]) = 1
    /\ Len(offered[2]) = 2
    /\ offered[2][1] # offered[2][2]

\* ---------------------------------------------------------------- claim C30
\* C30: a transaction call the controller issues after the SimTarget has been
\* dropped fails only that transaction: the call is taken up and ends with the
\* generic transport error, and the controller is not aborted by it.
C30_CallAfterDropFailsOnlyThatCall ==
    [][ (dropped /\ controller.pc = "idle" /\ controller'.pc # "idle")
           => /\ controller'.pc = "waiting"
              /\ responder' = Some([id |-> controller'.txn, value |-> Some(RecvError)])
      ]_vars

\* ---------------------------------------------------------- claims C23, C24
\* a call of I2cRam::read has returned
ReadReturned == driver.pc = "returned" /\ driver.op = "read"

\* the call before the one in progress was a write that returned Ok
PreviousWriteOk ==
    /\ IsSome(driver.previous)
    /\ Unwrap(driver.previous).op = "write"
    /\ Unwrap(driver.previous).result = RamOk

\* C23: the RAM round trip.  When write(a, d) with a + len(d) <= BUFLEN has
\* returned Ok and the next call is read(a, buf) with len(buf) >= len(d), the
\* read returns d in buf[..len(d)] (and succeeds when d is not empty); a read
\* that succeeds returns 0 for every position of the RAM that no write call
\* was asked to store to.
C23_RamRoundTrip ==
    ReadReturned =>
       /\ ( /\ PreviousWriteOk
            /\ Unwrap(driver.previous).at = driver.at
            /\ driver.at + Len(Unwrap(driver.previous).data) <= BUFLEN
            /\ Len(driver.buf) >= Len(Unwrap(driver.previous).data) )
          => /\ SliceTo(driver.buf, Len(Unwrap(driver.previous).data))
                   = Unwrap(driver.previous).data
             /\ Unwrap(driver.previous).data # <<>> => driver.result = Some(RamOk)
       /\ driver.result = Some(RamOk)
          => \A k \in 1..Len(driver.buf) :
                ( driver.at + k - 1 < BUFLEN /\ (driver.at + k - 1) \notin driver.written )
                   => driver.buf[k] = 0

\* two chunks written up to the last byte of the RAM have been read back
C23_Witness ==
    /\ ReadReturned
    /\ PreviousWriteOk
    /\ Unwrap(driver.previous).at = BUFLEN - CHUNK_SIZE - 1
    /\ Len(Unwrap(driver.previous).data) = CHUNK_SIZE + 1
    /\ driver.at = BUFLEN - CHUNK_SIZE - 1
    /\ driver.buf = Unwrap(driver.previous).data
    /\ driver.result = Some(RamOk)

\* the address the transaction in flight starts at
StartAddress == driver.at + driver.i * CHUNK_SIZE

\* C24: the bounds of the RAM.  A transaction whose start address is BUFLEN or
\* more comes back with NoAcknowledge, and a read, or a write of at least one
\* byte, at such an address returns OutOfBounds.  A read that starts inside
\* the RAM succeeds and returns the RAM contents up to the last byte and 0xFF
\* for every byte past it.
C24_RamBounds ==
    /\ (driver.pc = "busy" /\ controller.pc = "returned" /\ StartAddress >= BUFLEN)
          => /\ ~Unwrap(controller.result).ok
             /\ Unwrap(controller.result).err.kind = "NoAcknowledge"
    /\ ( /\ driver.pc = "returned" /\ driver.at >= BUFLEN
         /\ (driver.op = "read" \/ driver.data # <<>>) )
          => driver.result = Some(OutOfBounds)
    /\ (ReadReturned /\ driver.at < BUFLEN)
          => /\ driver.result = Some(RamOk)
             /\ \A k \in 1..Len(driver.buf) :
                   driver.buf[k] = IF driver.at + k - 1 < BUFLEN
                                   THEN ram.buf[driver.at + k]
                                   ELSE 255

\* bytes stored at the last two positions have been read back by a read of
\* three bytes
C24_Witness ==
    /\ ReadReturned
    /\ driver.at = BUFLEN - 2
    /\ driver.result = Some(RamOk)
    /\ driver.buf = <<1, 2, 255>>
    /\ driver.written # {}

\* write_read of one register byte with a read of exactly four bytes, on a
\* register that exists
RegisterRead(ops) ==
    /\ Len(ops) = 2
    /\ ops[1].kind = "Write" /\ Len(ops[1].buf) = 1 /\ ops[1].buf[1] < NumRegs
    /\ ops[2].kind = "Read" /\ Len(ops[2].buf) = 4

\* a write of a register byte alone, which leaves the expander waiting for
\* the read of that register
LoneRegisterByte(ops) ==
    Len(ops) = 1 /\ ops[1].kind = "Write" /\ Len(ops[1].buf) = 1

ObservesOther ==
    /\ controller.txn = last_call.txn
    /\ \/ /\ controller.pc = "waiting"
          /\ responder = Some([id |-> controller.txn, value |-> Some(RecvError)])
       \/ /\ controller.pc = "returned"
          /\ controller.result = Some(ErrResult(Other))

\* a call of the controller was pending when the listen of last_call was
\* cancelled, and the target has made no call since
CancelledListenPending ==
    /\ last_call.method = "cancel_listen"
    /\ last_call.txn = controller.txn
    /\ last_call.queued # <<>>

Writing == driver.op = "write" /\ driver.pc \in {"busy", "returned"}

\* every transaction the write has sent got a reply and the reply was Ok
AllChunksTaken ==
    /\ Len(driver.replies) = Len(driver.sent)
    /\ \A k \in 1..Len(driver.replies) : driver.replies[k].ok

\* C32: I2cRam::write(address, buf) sends buf in chunks of at most 16 bytes,
\* chunk i as a write transaction of its own whose payload is address + 16*i
\* as two little-endian bytes followed by the chunk; a chunk whose address
\* does not fit in 16 bits is not sent and the call returns OutOfBounds; the
\* call stops at the first chunk that fails and returns Ok only when every
\* chunk was sent and taken
C32_WriteChunks ==
    Writing =>
        /\ \A k \in 1..Len(driver.sent) :
              LET payload == driver.sent[k]
                  first == CHUNK_SIZE * (k - 1)
                  last == Min(first + CHUNK_SIZE, Len(driver.data))
              IN /\ driver.at + first < U16
                 /\ payload[1] + 256 * payload[2] = driver.at + first
                 /\ payload[1] < 256 /\ payload[2] < 256
                 /\ first < last
                 /\ SliceFrom(payload, 2) = SubSeq(driver.data, first + 1, last)
        /\ \A k \in 1..(Len(driver.replies) - 1) : driver.replies[k].ok
        /\ driver.pc = "busy"
            => /\ Len(driver.sent) = Len(driver.replies) + 1
               /\ controller.pc \in {"waiting", "returned"}
               /\ controller.operations[1].kind = "Write"
               /\ Len(controller.operations) = 1
               /\ controller.operations[1].buf = driver.sent[Len(driver.sent)]
        /\ (driver.pc = "returned" /\ driver.result = Some(RamOk))
            => /\ AllChunksTaken
               /\ CHUNK_SIZE * Len(driver.sent) >= Len(driver.data)
        /\ (driver.pc = "returned" /\ driver.result # Some(RamOk))
            => /\ Len(driver.replies) = Len(driver.sent)
               /\ IF AllChunksTaken
                  THEN /\ driver.at + CHUNK_SIZE * Len(driver.sent) >= U16
                       /\ CHUNK_SIZE * Len(driver.sent) < Len(driver.data)
                       /\ driver.result = Some(OutOfBounds)
                  ELSE LET e == driver.replies[Len(driver.replies)].err
                       IN driver.result =
                             Some(IF e.kind = "NoAcknowledge"
                                  THEN OutOfBounds ELSE I2cError(e))

\* a write of three chunks has had its first chunk taken and has returned
\* OutOfBounds without sending the second, whose address is past the u16
C32_Witness ==
    /\ Writing
    /\ driver.pc = "returned"
    /\ driver.result = Some(OutOfBounds)
    /\ Len(driver.data) = 2 * CHUNK_SIZE + 1
    /\ driver.at = U16 - CHUNK_SIZE
    /\ Len(driver.sent) = 1
    /\ AllChunksTaken

\* ------------------------------------------------------------------ claim C33
\* the controller's call has returned Ok or a NoAcknowledge
Answered ==
    /\ controller.pc = "returned"
    /\ controller.result \in { Some(OkResult),
                               Some(ErrResult(NoAcknowledge("Address"))),
                               Some(ErrResult(NoAcknowledge("Data"))) }

\* C33: when the target keeps calling listen and completes or releases every
\* handler it is given, every transaction the controller submits is answered:
\* the call returns Ok or a NoAcknowledge, and neither half ever stops on a
\* failed check on the way
C33_EveryTransactionAnswered ==
    /\ [](~panicked /\ controller.pc # "panicked")
    /\ (controller.pc = "waiting") ~> Answered

\* the second transaction of a run, one of two ops, has returned Ok
C33_Witness ==
    /\ Answered
    /\ controller.txn = 2
    /\ Len(controller.operations) = 2
    /\ controller.result = Some(OkResult)

\* ------------------------------------------------------------------ claim C34
\* write op i of the transaction in flight has been put whole into the
\* buffers of the target's calls
PayloadReceived(i) ==
    /\ i \in DOMAIN offered
    /\ offered[i] = controller.operations[i].buf

\* C34: a write op is advanced only after every byte of its payload was
\* copied into the target's buffers, so when the controller's call returns Ok
\* the target's calls have received the whole payload of every write op
C34_OkMeansPayloadReceived ==
    /\ ReturnedOk
        => \A i \in 1..Len(controller.operations) :
              controller.operations[i].kind = "Write" => PayloadReceived(i)
    /\ (Unanswered /\ IsSome(target.current_transaction)
            /\ CurrentTxn.responder = controller.txn)
        => \A i \in 1..CurrentTxn.current_op :
              controller.operations[i].kind = "Write" => PayloadReceived(i)

\* a transaction of two write ops has returned Ok, the first op of one byte
\* and the second of two
C34_Witness ==
    /\ ReturnedOk
    /\ Len(controller.operations) = 2
    /\ controller.operations[1] = WriteOp(<<1>>)
    /\ controller.operations[2].kind = "Write"
    /\ Len(controller.operations[2].buf) = 2
    /\ PayloadReceived(1) /\ PayloadReceived(2)

\* ------------------------------------------------------------------ claim C35
\* the transaction waiting in the channel has no operations
EmptyQueued ==
    /\ to_target # <<>>
    /\ Head(to_target).transaction.actions = <<>>

\* the target has called listen, on its own or inside listen_expect_*, in
\* this step, while a transaction waits in the channel
ListenWithQueued ==
    /\ ListenCalled
    /\ ~dropped'
    /\ to_target # <<>>
    /\ to_target' # to_target \/ target' # target

\* this step's listen took the waiting transaction, answered it Ok and
\* returned Deselect, with no handler and nothing left to report
EmptyAnswered ==
    /\ to_target' = Tail(to_target)
    /\ responder' = Some([id |-> Head(to_target).responder,
                          value |-> Some(OkReply(Head(to_target).transaction))])
    /\ listened' = Some(Deselect)
    /\ handler' = None
    /\ target' = SimTargetNew
    /\ yields'.deselects = yields.deselects + 1

\* the statement without its condition: whatever came before, the next
\* listen answers a waiting transaction of zero operations
C35_Original ==
    [][ (EmptyQueued /\ ListenWithQueued) => EmptyAnswered ]_vars

\* C35: a transaction of zero operations is answered Ok by the next listen
\* that has no Deselect of a NACKed transaction left to report, and that
\* listen returns Deselect and exposes no handler, so that consecutive empty
\* transactions produce one Deselect each; a listen that still has such a
\* Deselect to report returns it and leaves the transaction waiting
C35_EmptyTransactionDeselects ==
    [][ (EmptyQueued /\ ListenWithQueued)
           => IF target.need_to_report_deselect
              THEN /\ listened' = Some(Deselect)
                   /\ handler' = None
                   /\ to_target' = to_target
                   /\ responder' = responder
                   /\ target' = SimTargetNew
              ELSE EmptyAnswered
      ]_vars

\* the second of two empty transactions has returned Ok and each has made
\* one listen return Deselect
C35_Witness ==
    /\ ReturnedOk
    /\ controller.txn = 2
    /\ controller.operations = <<>>
    /\ listened = Some(Deselect)
    /\ yields.deselects = 2
    /\ yields.txn = 0
    /\ handler = None

\* ------------------------------------------------------------------ claim C36
\* the responder of transaction id holds an answer the controller has not
\* taken yet
AnswerWaiting(id) ==
    /\ IsSome(responder)
    /\ Unwrap(responder).id = id
    /\ IsSome(Unwrap(responder).value)

\* the transactions the target owns: the current one and those in the channel
Owned ==
    (IF IsSome(target.current_transaction) THEN {CurrentTxn.responder} ELSE {})
        \cup { to_target[i].responder : i \in 1..Len(to_target) }

\* C36: a transaction the target has taken is answered at most once.  The
\* target owns only the transaction the controller is waiting for, and only
\* while it is unanswered: with the answer, Ok or one NoAcknowledge, it
\* stops being the current transaction, so nothing is left to answer it
\* again, and an answer once given is what the controller's call returns
C36_AnsweredAtMostOnce ==
    /\ [](/\ \A id \in Owned : id = controller.txn /\ Unanswered
          /\ ~(IsSome(target.current_transaction) /\ to_target # <<>>))
    /\ [][ AnswerWaiting(controller.txn)
              => \/ responder' = responder
                 \/ /\ responder' = None
                    /\ controller'.pc \in {"returned", "panicked"}
                    /\ Unwrap(Unwrap(responder).value).ok
                           => controller'.result = Some(OkResult)
                    /\ (~Unwrap(Unwrap(responder).value).ok
                            /\ Unwrap(responder).value # Some(RecvError))
                           => controller'.result =
                                 Some(ErrResult(Unwrap(Unwrap(responder).value).err))
       ]_vars

\* the second op of a transaction was NACKed: the answer waits for the
\* controller and the target has no current transaction
C36_Witness ==
    /\ AnswerWaiting(controller.txn)
    /\ Unwrap(responder).value = Some(ErrReply(NoAcknowledge("Data")))
    /\ controller.pc = "waiting"
    /\ last_call.method = "drop"
    /\ last_call.op = 1
    /\ target.current_transaction = None
    /\ target.need_to_report_deselect

\* ------------------------------------------------------------------ claim C37
\* a call of I2cRam::write on the service's address has returned, for data
\* that starts inside the RAM and runs past its end
OverrunWriteReturned ==
    /\ driver.pc = "returned" /\ driver.op = "write"
    /\ driver.address = TARGET_ADDR
    /\ driver.at < BUFLEN
    /\ driver.at + Len(driver.data) > BUFLEN

C38_NakNeverWithDeselectPending ==
    /\ ~panicked
    /\ IsSome(handler) => ~target.need_to_report_deselect
    /\ target.need_to_report_deselect
          => /\ target.current_transaction = None
             /\ handler = None

\* a write handler is live on the transaction that followed a NACKed one,
\* whose Deselect has been reported in between
C38_Witness ==
    /\ IsSome(handler)
    /\ ~target.need_to_report_deselect
    /\ IsSome(target.current_transaction)
    /\ controller.txn > 1
    /\ CurrentTxn.responder = controller.txn
    /\ yields.txn = controller.txn
    /\ yields.nack = 2

\* ------------------------------------------------------------------ claim C39
\* the live handler stands on an op of its own direction
HandlerOnItsOp ==
    /\ IsSome(target.current_transaction)
    /\ Current(CurrentTxn) # None
    /\ Unwrap(Current(CurrentTxn)).kind =
          (IF Unwrap(handler).kind = "OnRead" THEN "Read" ELSE "Write")

\* C39: current_op never passes the number of ops of the current
\* transaction; no step, a handler release included, advances it by more than
\* one; a live handler always has a current transaction whose current op is
\* of the handler's direction; and none of the expect / panic / assert_eq
\* checks of listen, nak, next and the handlers fails
C39_CurrentOpInRange ==
    /\ [](/\ ~panicked
          /\ IsSome(target.current_transaction)
                => CurrentTxn.current_op <= Len(CurrentTxn.transaction.actions)
          /\ IsSome(handler) => HandlerOnItsOp)
    /\ [][ IsSome(target.current_transaction')
              => IF /\ IsSome(target.current_transaction)
                    /\ CurrentTxn'.responder = CurrentTxn.responder
                 THEN CurrentTxn'.current_op \in
                          {CurrentTxn.current_op, CurrentTxn.current_op + 1}
                 ELSE CurrentTxn'.current_op \in {0, 1}
       ]_vars

\* a read handler is live on the second op of a transaction whose first op,
\* a write, was completed
C39_Witness ==
    /\ IsSome(handler)
    /\ Unwrap(handler).kind = "OnRead"
    /\ HandlerOnItsOp
    /\ CurrentTxn.current_op = 1
    /\ Len(CurrentTxn.transaction.actions) = 2
    /\ CurrentTxn.transaction.actions[1].kind = "Write"

\* ------------------------------------------------------------------ claim C40
\* C40: in target_service the cursor cur_addr never passes BUFLEN, whatever
\* reads, writes, NACKs and Deselects the service has gone through, so every
\* slice buf[cur_addr..] it takes lies inside the buffer of BUFLEN bytes
C40_CursorInBounds ==
    /\ ram.cur_addr >= 0
    /\ ram.cur_addr <= BUFLEN
    /\ Len(ram.buf) = BUFLEN

\* a read of three bytes that started two positions before the end has
\* returned: it ran past the end and left the cursor at BUFLEN
C40_Witness ==
    /\ ReadReturned
    /\ driver.address = TARGET_ADDR
    /\ driver.at = BUFLEN - 2
    /\ Len(driver.buf) = 3
    /\ driver.result = Some(RamOk)
    /\ ram.cur_addr = BUFLEN

====
